---- MODULE Spec2Model ----
(***************************************************************************)
(* Chapter-audio generation pipeline of books-repo:                        *)
(*   scripts/audio-generator.ts          UnifiedAudioGenerator             *)
(*   scripts/generate-chapter-audio.ts   ChapterAudioGenerator             *)
(*   config/config-manager.ts            ConfigManager                     *)
(*                                                                         *)
(* Strings are sequences of one-character strings; JavaScript indices are  *)
(* 0-based, so the character text[i] of the source is text[i + 1] here.    *)
(***************************************************************************)
EXTENDS Integers, Sequences, FiniteSets, TLC

VARIABLES
    splitPc,        \* chunker harness: "ready" before the call, "done" after
    splitText,      \* the text handed to splitTextIntoChunks
    splitMax,       \* this.options.chunk_size of that call
    splitCuts,      \* the [start, end) index pairs the while loop sliced
    splitChunks     \* the array splitTextIntoChunks returned

VARIABLES
    normPc,         \* normalizer harness: "ready", "once", "twice"
    normSettings,   \* globalSettings.text_processing of the calls
    normText,       \* the text handed to normalizeTextForTTS
    normOnce,       \* normalizeTextForTTS(normText)
    normTwice       \* normalizeTextForTTS(normOnce)

VARIABLES
    callPc,         \* call harness: "ready" before the call, "returned" after
    callArgs,       \* the arguments of the call
    callResult      \* what the call returned or wrote

VARIABLES
    genPc,          \* where each overlapping generateChapterAudio call is
    genIdentifier,  \* its chapterIdentifier
    genChapter,     \* the chapter its findChapter returned
    genBackupPath,  \* the timestamp of its backupTocPath
    genBackedUp     \* history: the toc.yml content its fs.copy backed up

VARIABLES
    batchPc,        \* where BatchProcessor.run is suspended
    batchOptions,   \* this.options of the BatchProcessor
    bookFiles,      \* bookFiles of run(): what findBookFiles returned
    batchI,         \* loop variable i of processBooksConcurrently / Sequentially
    bookState,      \* where the processBook invocation of each book is
    bookResult,     \* what processBook resolved to for each book
    bookCalls,      \* history: how often processBook was invoked for each book
    batchTally,     \* successful / failed of processBooksSequentially
    batchSummary    \* the [successful, failed] tally printed at the end

VARIABLES
    pc,             \* where the generation run is suspended
    mode,           \* "chapters": generateMultipleChapters, "book": generateBookAudio
    identifiers,    \* chapterIdentifiers of generateMultipleChapters
    idIndex,        \* its loop variable i
    outcomes,       \* history: how each identifier handled so far ended
    config,         \* the provider's TTSProviderConfig, the environment it runs in
    options,        \* the ChapterAudioOptions of the command line
    contentFiles,   \* the chapter files that exist in <book>/content/chapters
    console,        \* history: the outcome lines ChapterAudioGenerator printed
    now,            \* Date.now()
    tocFile,        \* content of <book>/toc.yml
    backupFiles,    \* the .toc-backup-<timestamp>.yml files, by timestamp
    audioFiles,     \* files of <book>/audio/<provider>/chapters, by name
    tempFiles,      \* files of <book>/temp, by [ts, idx] of chunk_<ts>_<idx>
    chapter,        \* generateChapterAudio: the chapter findChapter returned
    backupPath,     \* generateChapterAudio: timestamp of backupTocPath
    thrown,         \* the error being propagated, NoError if none
    runToc,         \* generateBookAudio: toc.chapters as loaded
    chapterIndex,   \* generateBookAudio: position of the chapter loop (1-based)
    audioPath,      \* generateBookAudio: audioFilename of the current chapter
    chunks,         \* generateAudioForText: the chunks of the chapter text
    chunkIndex,     \* generateAudioForText: loop variable i
    chunkPaths,     \* generateAudioForText: chunkPaths
    chunkAudio,     \* history: the bytes each chunk's synthesis produced
    events,         \* history: chunk syntheses and rate-limit delays of the chapter
    outputPath,     \* generateSingleAudio: outputPath
    retries,        \* generateSingleAudio: retries
    attempts,       \* history: requests attempted by the current call
    waits,          \* history: [error, delay] of each backoff of the current call
    lastError,      \* history: the error of the latest failed attempt
    logLines,       \* history: what the current call appended to the log file
    inflight        \* the synthesis requests awaiting their response

splitVars == <<splitPc, splitText, splitMax, splitCuts, splitChunks>>

normVars == <<normPc, normSettings, normText, normOnce, normTwice>>

callVars == <<callPc, callArgs, callResult>>

batchVars == <<batchPc, batchOptions, bookFiles, batchI, bookState, bookResult,
               bookCalls, batchTally, batchSummary>>

overlapVars == <<genPc, genIdentifier, genChapter, genBackupPath, genBackedUp>>

harnessVars == <<splitVars, normVars, callVars, batchVars, overlapVars>>

fileVars == <<tocFile, backupFiles, audioFiles, tempFiles>>

chapterRunVars == <<mode, identifiers, idIndex, outcomes, chapter, backupPath>>

bookRunVars == <<runToc, chapterIndex, audioPath>>

textRunVars == <<chunks, chunkIndex, chunkPaths, chunkAudio, events>>

singleRunVars == <<outputPath, retries, attempts, waits, lastError, logLines>>

runVars == <<pc, config, options, contentFiles, console, now, thrown, inflight, fileVars,
             chapterRunVars, bookRunVars, textRunVars, singleRunVars>>

vars == <<splitVars, normVars, callVars, batchVars, overlapVars, runVars>>

----------------------------------------------------------------------------
(* Bounds of the chunker inputs.                                            *)
MaxTextLen == 6
MaxChunkSize == 4

(* Alphabet of the chunker inputs: a letter, a blank and two of the three   *)
(* sentence terminators.                                                   *)
SplitAlphabet == {"a", " ", ".", "?"}

----------------------------------------------------------------------------
(* String primitives of the JavaScript runtime.                            *)

\* \s of a regular expression and the characters String.prototype.trim strips
IsSpace(c) == c \in {" ", "\n", "\t", "\r"}

\* String.prototype.slice(start, end) for 0 <= start; end is clamped
Slice(s, start, end) ==
    LET e == IF end > Len(s) THEN Len(s) ELSE end
    IN  IF start >= e THEN <<>> ELSE SubSeq(s, start + 1, e)

RECURSIVE TrimStart(_)
TrimStart(s) ==
    IF s # <<>> /\ IsSpace(Head(s)) THEN TrimStart(Tail(s)) ELSE s

RECURSIVE TrimEnd(_)
TrimEnd(s) ==
    IF s # <<>> /\ IsSpace(s[Len(s)]) THEN TrimEnd(SubSeq(s, 1, Len(s) - 1)) ELSE s

\* String.prototype.trim
Trim(s) == TrimEnd(TrimStart(s))

\* all strings over alphabet A of length at most n
StringsUpTo(A, n) == UNION {[1..k -> A] : k \in 0..n}

----------------------------------------------------------------------------
(* UnifiedAudioGenerator.splitTextIntoChunks                               *)

sentenceEnds == {".", "!", "?"}

\* for (let i = end; i >= searchStart; i--) with
\* searchStart = Math.max(start + maxChunkSize * 0.8, start); i >= searchStart
\* is 5 * (i - start) >= 4 * maxChunkSize.  Returns bestBreak, -1 if none.
RECURSIVE FindBestBreak(_, _, _, _)
FindBestBreak(text, i, start, maxChunkSize) ==
    IF 5 * (i - start) < 4 * maxChunkSize THEN -1
    ELSE IF text[i + 1] \in sentenceEnds THEN i + 1
    ELSE FindBestBreak(text, i - 1, start, maxChunkSize)

\* one iteration of the while loop: the end of the slice that starts at start
SliceEnd(text, start, maxChunkSize) ==
    LET end == start + maxChunkSize
        bestBreak == IF end < Len(text)
                     THEN FindBestBreak(text, end, start, maxChunkSize)
                     ELSE -1
    IN  IF end < Len(text) /\ bestBreak > start THEN bestBreak ELSE end

\* SplitCuts with the next slice starting one character after the cut
RECURSIVE SplitCutsSkipping(_, _, _)
SplitCutsSkipping(text, start, maxChunkSize) ==
    IF ~(start < Len(text)) THEN <<>>
    ELSE LET end == SliceEnd(text, start, maxChunkSize)
         IN  <<[start |-> start, end |-> end]>>
                 \o SplitCutsSkipping(text, end + 1, maxChunkSize)

\* the while loop: the [start, end) pairs handed to text.slice, in order
RECURSIVE SplitCuts(_, _, _)
SplitCuts(text, start, maxChunkSize) ==
    IF ~(start < Len(text)) THEN <<>>
    ELSE LET end == SliceEnd(text, start, maxChunkSize)
         IN  <<[start |-> start, end |-> end]>>
                 \o SplitCuts(text, end, maxChunkSize)

NonEmpty(chunk) == Len(chunk) > 0

\* The early return of a text that fits keeps the text as it is.
ShortTextChunks(text) == <<text>>

splitTextIntoChunks(text, maxChunkSize) ==
    IF Len(text) <= maxChunkSize THEN ShortTextChunks(text)
    ELSE LET cuts == SplitCuts(text, 0, maxChunkSize)
             trimmed == [k \in 1..Len(cuts) |->
                            Trim(Slice(text, cuts[k].start, cuts[k].end))]
         IN  SelectSeq(SelectSeq(trimmed, NonEmpty), NonEmpty)

----------------------------------------------------------------------------
(* UnifiedAudioGenerator.normalizeTextForTTS: each String.replace with a   *)
(* global regular expression scans left to right and replaces the          *)
(* leftmost matches, never rescanning what it has produced.                *)

IsDigit(c) == c \in {"0", "1", "2", "3", "4", "5", "6", "7", "8", "9"}

\* a line terminator: what "." does not match and what "^" follows under /m
IsLineTerminator(c) == c \in {"\n", "\r"}

\* index of the first character at or after p that is not a digit
RECURSIVE SkipDigits(_, _)
SkipDigits(s, p) ==
    IF p <= Len(s) /\ IsDigit(s[p]) THEN SkipDigits(s, p + 1) ELSE p

\* index of the first character at or after p that is not whitespace
RECURSIVE SkipSpace(_, _)
SkipSpace(s, p) ==
    IF p <= Len(s) /\ IsSpace(s[p]) THEN SkipSpace(s, p + 1) ELSE p

\* index of the first occurrence of character c at or after p, 0 if none
RECURSIVE IndexOfChar(_, _, _)
IndexOfChar(s, c, p) ==
    IF p > Len(s) THEN 0
    ELSE IF s[p] = c THEN p
    ELSE IndexOfChar(s, c, p + 1)

\* index of the last line break in s[from..to], 0 if none
RECURSIVE LastNewline(_, _, _)
LastNewline(s, from, to) ==
    IF to < from THEN 0
    ELSE IF s[to] = "\n" THEN to
    ELSE LastNewline(s, from, to - 1)

Rest(s, p) == SubSeq(s, p, Len(s))

\* .replace(/\[\d+\]/g, "") and .replace(/\(\d+\)/g, ""): open, one or more
\* digits, close
RECURSIVE RemoveNumberMarkers(_, _, _)
RemoveNumberMarkers(s, open, close) ==
    IF s = <<>> THEN <<>>
    ELSE LET e == SkipDigits(s, 2)
         IN  IF Head(s) = open /\ e > 2 /\ e <= Len(s) /\ s[e] = close
             THEN RemoveNumberMarkers(Rest(s, e + 1), open, close)
             ELSE <<Head(s)>> \o RemoveNumberMarkers(Tail(s), open, close)

\* .replace(/\s+/g, " ")
RECURSIVE CollapseWhitespace(_)
CollapseWhitespace(s) ==
    IF s = <<>> THEN <<>>
    ELSE IF IsSpace(Head(s))
         THEN <<" ">> \o CollapseWhitespace(Rest(s, SkipSpace(s, 1)))
         ELSE <<Head(s)>> \o CollapseWhitespace(Tail(s))

\* s[p..p+n-1] is n asterisks
StarsAt(s, p, n) == p + n - 1 <= Len(s) /\ \A k \in p..(p + n - 1) : s[k] = "*"

\* the lazy (.*?) followed by n asterisks: the least q >= p with n asterisks
\* at q and no line terminator in s[p..q-1]; 0 if there is none
RECURSIVE LazyClose(_, _, _)
LazyClose(s, p, n) ==
    IF p > Len(s) THEN 0
    ELSE IF StarsAt(s, p, n) THEN p
    ELSE IF IsLineTerminator(s[p]) THEN 0
    ELSE LazyClose(s, p + 1, n)

\* .replace(/\*\*(.*?)\*\*/g, "$1") for n = 2, .replace(/\*(.*?)\*/g, "$1")
\* for n = 1
RECURSIVE RemoveEmphasis(_, _)
RemoveEmphasis(s, n) ==
    IF s = <<>> THEN <<>>
    ELSE LET q == IF StarsAt(s, 1, n) THEN LazyClose(s, n + 1, n) ELSE 0
         IN  IF q # 0
             THEN SubSeq(s, n + 1, q - 1) \o RemoveEmphasis(Rest(s, q + n), n)
             ELSE <<Head(s)>> \o RemoveEmphasis(Tail(s), n)

\* .replace(/\[([^\]]+)\]\([^)]+\)/g, "$1")
RECURSIVE ReplaceLinks(_)
ReplaceLinks(s) ==
    IF s = <<>> THEN <<>>
    ELSE LET q == IF Head(s) = "[" THEN IndexOfChar(s, "]", 2) ELSE 0
             r == IF q >= 3 /\ q + 1 <= Len(s) /\ s[q + 1] = "("
                  THEN IndexOfChar(s, ")", q + 2)
                  ELSE 0
         IN  IF r # 0 /\ r >= q + 3
             THEN SubSeq(s, 2, q - 1) \o ReplaceLinks(Rest(s, r + 1))
             ELSE <<Head(s)>> \o ReplaceLinks(Tail(s))

\* .replace(/^\s*[-*+]\s+/gm, ""), scanning s from index p: "^" holds at the
\* start of s and after a line terminator of s
RECURSIVE RemoveListMarkers(_, _)
RemoveListMarkers(s, p) ==
    IF p > Len(s) THEN <<>>
    ELSE LET atLineStart == p = 1 \/ IsLineTerminator(s[p - 1])
             a == SkipSpace(s, p)
             b == SkipSpace(s, a + 1)
         IN  IF /\ atLineStart
                /\ a <= Len(s)
                /\ s[a] \in {"-", "*", "+"}
                /\ b > a + 1
             THEN RemoveListMarkers(s, b)
             ELSE <<s[p]>> \o RemoveListMarkers(s, p + 1)

\* index of the first character at or after p that is not a line break
RECURSIVE SkipNewlines(_, _)
SkipNewlines(s, p) ==
    IF p <= Len(s) /\ s[p] = "\n" THEN SkipNewlines(s, p + 1) ELSE p

\* .replace(/\n{3,}/g, "\n\n")
RECURSIVE LimitLineBreaks(_)
LimitLineBreaks(s) ==
    IF s = <<>> THEN <<>>
    ELSE LET e == SkipNewlines(s, 1)
         IN  IF e >= 4
             THEN <<"\n", "\n">> \o LimitLineBreaks(Rest(s, e))
             ELSE <<Head(s)>> \o LimitLineBreaks(Tail(s))

\* .replace(/([.!?])\s*\n\s*/g, "$1 ")
RECURSIVE JoinSentences(_)
JoinSentences(s) ==
    IF s = <<>> THEN <<>>
    ELSE LET e == SkipSpace(s, 2)
         IN  IF Head(s) \in {".", "!", "?"} /\ LastNewline(s, 2, e - 1) # 0
             THEN <<Head(s), " ">> \o JoinSentences(Rest(s, e))
             ELSE <<Head(s)>> \o JoinSentences(Tail(s))

\* .replace(/\n\s*\n/g, ". ")
RECURSIVE ParagraphBreaksToPeriods(_)
ParagraphBreaksToPeriods(s) ==
    IF s = <<>> THEN <<>>
    ELSE LET e == SkipSpace(s, 2)
             l == IF Head(s) = "\n" THEN LastNewline(s, 2, e - 1) ELSE 0
         IN  IF l # 0
             THEN <<".", " ">> \o ParagraphBreaksToPeriods(Rest(s, l + 1))
             ELSE <<Head(s)>> \o ParagraphBreaksToPeriods(Tail(s))

\* ConfigManager.globalSettings.text_processing
DefaultTextProcessing ==
    [clean_markdown |-> TRUE, remove_footnotes |-> TRUE,
     normalize_whitespace |-> TRUE]

normalizeTextForTTS(text, settings) ==
    IF ~settings.clean_markdown THEN text
    ELSE LET n1 == IF settings.remove_footnotes
                   THEN RemoveNumberMarkers(
                            RemoveNumberMarkers(text, "[", "]"), "(", ")")
                   ELSE text
             n2 == IF settings.normalize_whitespace
                   THEN CollapseWhitespace(n1)
                   ELSE n1
         IN  Trim(ParagraphBreaksToPeriods(JoinSentences(LimitLineBreaks(
                 RemoveListMarkers(ReplaceLinks(RemoveEmphasis(
                     RemoveEmphasis(n2, 2), 1)), 1)))))

----------------------------------------------------------------------------
(* More of the JavaScript runtime: parseInt, String(n), toLowerCase,       *)
(* includes, Buffer.writeUInt16LE / writeUInt32LE.                         *)

DigitValue(c) ==
    CASE c = "0" -> 0 [] c = "1" -> 1 [] c = "2" -> 2 [] c = "3" -> 3
      [] c = "4" -> 4 [] c = "5" -> 5 [] c = "6" -> 6 [] c = "7" -> 7
      [] c = "8" -> 8 [] c = "9" -> 9

DigitChar(d) == <<"0", "1", "2", "3", "4", "5", "6", "7", "8", "9">>[d + 1]

\* value of the decimal digits s[p..q-1], given the value acc of those before
RECURSIVE DigitsValue(_, _, _, _)
DigitsValue(s, p, q, acc) ==
    IF p >= q THEN acc
    ELSE DigitsValue(s, p + 1, q, 10 * acc + DigitValue(s[p]))

UpperCase == <<"A", "B", "C", "D", "E", "F", "G", "H", "I", "J", "K", "L", "M",
               "N", "O", "P", "Q", "R", "S", "T", "U", "V", "W", "X", "Y", "Z">>
LowerCase == <<"a", "b", "c", "d", "e", "f", "g", "h", "i", "j", "k", "l", "m",
               "n", "o", "p", "q", "r", "s", "t", "u", "v", "w", "x", "y", "z">>

LowerChar(c) ==
    IF \E k \in 1..26 : UpperCase[k] = c
    THEN LowerCase[CHOOSE k \in 1..26 : UpperCase[k] = c]
    ELSE c

HexDigits == <<"0", "1", "2", "3", "4", "5", "6", "7", "8", "9",
               "a", "b", "c", "d", "e", "f">>

IsHexDigit(c) == \E d \in 1..16 : HexDigits[d] = LowerChar(c)

HexValue(c) == (CHOOSE d \in 1..16 : HexDigits[d] = LowerChar(c)) - 1

\* index of the first character at or after p that is not a hex digit
RECURSIVE SkipHexDigits(_, _)
SkipHexDigits(s, p) ==
    IF p <= Len(s) /\ IsHexDigit(s[p]) THEN SkipHexDigits(s, p + 1) ELSE p

\* value of the hex digits s[p..q-1], given the value acc of those before
RECURSIVE HexDigitsValue(_, _, _, _)
HexDigitsValue(s, p, q, acc) ==
    IF p >= q THEN acc
    ELSE HexDigitsValue(s, p + 1, q, 16 * acc + HexValue(s[p]))

\* parseInt(s) without a radix: leading whitespace, an optional sign, then
\* after "0x" or "0X" the longest run of hex digits and otherwise the longest
\* run of decimal digits; NaN when there is no digit
parseInt(s) ==
    LET a == SkipSpace(s, 1)
        signed == a <= Len(s) /\ s[a] \in {"+", "-"}
        b == IF signed THEN a + 1 ELSE a
        hex == b + 1 <= Len(s) /\ s[b] = "0" /\ s[b + 1] \in {"x", "X"}
        c == IF hex THEN b + 2 ELSE b
        e == IF hex THEN SkipHexDigits(s, c) ELSE SkipDigits(s, c)
        v == IF hex THEN HexDigitsValue(s, c, e, 0) ELSE DigitsValue(s, c, e, 0)
    IN  IF e = c THEN [isNaN |-> TRUE, value |-> 0]
        ELSE [isNaN |-> FALSE,
              value |-> IF signed /\ s[a] = "-" THEN 0 - v ELSE v]

\* String(n) for an integer n >= 0
RECURSIVE NatToString(_)
NatToString(n) ==
    IF n < 10 THEN <<DigitChar(n)>>
    ELSE NatToString(n \div 10) \o <<DigitChar(n % 10)>>

\* String(n).padEnd(2, "0"): the zero after the digit
PadEnd2(n) ==
    LET d == NatToString(n) IN IF Len(d) < 2 THEN d \o <<"0">> ELSE d

\* String(n).padStart(2, "0")
PadStart2(n) ==
    LET d == NatToString(n) IN IF Len(d) < 2 THEN <<"0">> \o d ELSE d

\* String.prototype.toLowerCase
toLowerCase(s) == [k \in 1..Len(s) |-> LowerChar(s[k])]

\* String.prototype.includes
Includes(s, sub) ==
    \E k \in 0..(Len(s) - Len(sub)) : SubSeq(s, k + 1, k + Len(sub)) = sub

\* \w of a regular expression
IsWordChar(c) ==
    \/ IsDigit(c)
    \/ c = "_"
    \/ \E k \in 1..26 : c = UpperCase[k] \/ c = LowerCase[k]

UInt16LE(v) == <<v % 256, (v \div 256) % 256>>

\* the four bytes of Buffer.writeUInt32BE: most significant byte first
UInt32BE(v) ==
    <<(v \div 16777216) % 256, (v \div 65536) % 256, (v \div 256) % 256,
      v % 256>>

UInt32LE(v) ==
    <<v % 256, (v \div 256) % 256, (v \div 65536) % 256,
      (v \div 16777216) % 256>>

----------------------------------------------------------------------------
(* UnifiedAudioGenerator.sanitizeFilename                                  *)

\* a character of the runs .replace(/\s+/g, "-") replaces (ofSpaces) or of the
\* runs .replace(/-+/g, "-") replaces
InRun(c, ofSpaces) == IF ofSpaces THEN IsSpace(c) ELSE c = "-"

RECURSIVE RunsToHyphen(_, _)
RunsToHyphen(s, ofSpaces) ==
    IF s = <<>> THEN <<>>
    ELSE IF InRun(Head(s), ofSpaces)
         THEN IF Len(s) > 1 /\ InRun(s[2], ofSpaces)
              THEN RunsToHyphen(Tail(s), ofSpaces)
              ELSE <<"-">> \o RunsToHyphen(Tail(s), ofSpaces)
         ELSE <<Head(s)>> \o RunsToHyphen(Tail(s), ofSpaces)

\* a character .replace(/[^\w\s-]/g, "") keeps
IsFilenameChar(c) == IsWordChar(c) \/ IsSpace(c) \/ c = "-"

sanitizeFilename(text) ==
    Trim(RunsToHyphen(
             RunsToHyphen(SelectSeq(toLowerCase(text), IsFilenameChar), TRUE),
             FALSE))

\* `${String(chapter.order).padStart(2, "0")}-${sanitizeFilename(title)}.${ext}`
AudioFilename(ch, extension) ==
    PadStart2(ch.order) \o <<"-">> \o sanitizeFilename(ch.title)
        \o <<".">> \o extension

----------------------------------------------------------------------------
(* UnifiedAudioGenerator.createWavFile and convertPCMToAudio               *)

DefaultSampleRate == 24000

\* the 44-byte header of a 16-bit mono PCM WAV file, as byte values
WavHeader(dataLength, sampleRate) ==
    <<82, 73, 70, 70>> \o UInt32LE(36 + dataLength)     \* "RIFF", size
        \o <<87, 65, 86, 69>>                           \* "WAVE"
        \o <<102, 109, 116, 32>> \o UInt32LE(16)        \* "fmt ", chunk size
        \o UInt16LE(1) \o UInt16LE(1)                   \* PCM, mono
        \o UInt32LE(sampleRate) \o UInt32LE(sampleRate * 2)
        \o UInt16LE(2) \o UInt16LE(16)                  \* block align, bits
        \o <<100, 97, 116, 97>> \o UInt32LE(dataLength) \* "data", size

\* the bytes createWavFile writes
createWavFile(pcmBuffer, sampleRate) ==
    WavHeader(Len(pcmBuffer), sampleRate) \o pcmBuffer

RateTag == <<"r", "a", "t", "e", "=">>

\* mimeType.match(/rate=(\d+)/): index of the first "rate=" followed by a
\* digit, 0 if none
RECURSIVE RateMatch(_, _)
RateMatch(mimeType, p) ==
    IF p + Len(RateTag) > Len(mimeType) THEN 0
    ELSE IF /\ SubSeq(mimeType, p, p + Len(RateTag) - 1) = RateTag
            /\ IsDigit(mimeType[p + Len(RateTag)])
         THEN p
         ELSE RateMatch(mimeType, p + 1)

\* rateMatch ? parseInt(rateMatch[1]) : 24000
SampleRateOf(mimeType) ==
    LET m == RateMatch(mimeType, 1)
    IN  IF m = 0 THEN DefaultSampleRate
        ELSE DigitsValue(mimeType, m + Len(RateTag),
                         SkipDigits(mimeType, m + Len(RateTag)), 0)

\* mimeType.includes("audio/L16") || mimeType.includes("pcm")
IsRawPcm(mimeType) ==
    \/ Includes(mimeType, <<"a", "u", "d", "i", "o", "/", "L", "1", "6">>)
    \/ Includes(mimeType, <<"p", "c", "m">>)

\* the payload written as it came, whatever the MIME type
PayloadAsReceived(mimeType, audioBuffer) == audioBuffer

\* the bytes generateAudioWithGoogle leaves at its output path for a response
\* with this MIME type and (base64-decoded) payload
GoogleFileBytes(mimeType, audioBuffer) ==
    IF IsRawPcm(mimeType)
    THEN createWavFile(audioBuffer, SampleRateOf(mimeType))
    ELSE audioBuffer

----------------------------------------------------------------------------
(* The book, the provider registry and the environment of a run.           *)

\* highest retry_attempts a provider configuration of the model declares
MaxRetryAttempts == 3
\* highest value Date.now() takes during a run
MaxClock == 1

\* <book>/toc.yml as the conversion step leaves it
BookToc ==
    [totalChapters |-> 3,
     chapters |-> <<
        [id |-> "ch1", title |-> <<"C", "h", "a", "o", "s">>, order |-> 1, filename |-> "01.md"],
        [id |-> "ch2", title |-> <<"T", "h", "e", " ", "E", "n", "d", "?">>, order |-> 2, filename |-> "02.md"],
        [id |-> "ch3", title |-> <<"E", "n", "d", " ", "-", " ", "3">>, order |-> 3, filename |-> "03.md"]>>]

\* <book>/content/chapters: the text of each chapter file
BookContent ==
    [f \in {"01.md", "02.md", "03.md"} |->
        CASE f = "01.md" -> <<"H", "i", ".">>
          [] f = "02.md" -> <<"a", "b", ".", " ", "c", "d", "e", "f", "g", "h">>
          [] f = "03.md" -> <<"x", "y", "!", " ", "z">>]

\* the chapter files found on disk: all of them, or all but the second
ContentFileSets == {DOMAIN BookContent, DOMAIN BookContent \ {"02.md"}}

\* the identifier lists given on the command line
IdentifierLists ==
    {<<<<"1">>, <<"2">>, <<"3">>>>, <<<<"3">>, <<"e", "n">>>>, <<<<"9">>, <<"2">>>>}

\* config/providers: what the run reads of googleTTSConfig and openaiTTSConfig
googleTTSConfig ==
    [provider |-> "google", extension |-> <<"w", "a", "v">>,
     voice |-> "Kore", model |-> "gemini-2.5-flash-preview-tts",
     format |-> "audio/wav",
     max_chunk_size |-> 3000, rate_limit_delay |-> 10000]

openaiTTSConfig ==
    [provider |-> "openai", extension |-> <<"m", "p", "3">>,
     voice |-> "alloy", model |-> "tts-1", format |-> "mp3",
     max_chunk_size |-> 3000, rate_limit_delay |-> 1000]

\* processing.retry_delay values of the model (ms), by provider
RetryDelays(provider) == IF provider = "google" THEN {1000} ELSE {2000}

\* inlineData.mimeType values a Google response carries
GoogleMimeTypes == {<<"a", "u", "d", "i", "o", "/", "L", "1", "6", ";", "c", "o", "d", "e", "c", "=", "p", "c", "m", ";", "r", "a", "t", "e", "=", "2", "4", "0", "0", "0">>,
                    <<"a", "u", "d", "i", "o", "/", "m", "p", "e", "g">>}

\* the MIME type plays no part in an OpenAI run
NoMimeType == <<>>

\* a field of ChapterAudioOptions: absent, or present with a value
Undefined == <<>>
Given(v) == <<v>>

NoOptions ==
    [provider |-> Undefined, voice |-> Undefined, model |-> Undefined,
     format |-> Undefined, force_regenerate |-> Undefined,
     chunk_size |-> Undefined, rate_limit_delay |-> Undefined]

\* the options a generator is constructed with
OptionSets == {[NoOptions EXCEPT !.chunk_size = Given(4)],
               [NoOptions EXCEPT !.rate_limit_delay = Given(500)]}

\* a provider configuration together with the environment of the run: whether
\* the API key variable is set and the MIME type of the provider's responses
ConfigsOf(base, mimeTypes) ==
    {[provider |-> base.provider, extension |-> base.extension,
      voice |-> base.voice, model |-> base.model, format |-> base.format,
      max_chunk_size |-> base.max_chunk_size,
      rate_limit_delay |-> base.rate_limit_delay,
      retry_attempts |-> k, retry_delay |-> d,
      api_key_set |-> key, mimeType |-> mime] :
        k \in 0..MaxRetryAttempts, d \in RetryDelays(base.provider), key \in BOOLEAN,
        mime \in mimeTypes}

RunConfigs ==
    ConfigsOf(googleTTSConfig, GoogleMimeTypes)
        \cup ConfigsOf(openaiTTSConfig, {NoMimeType})

\* the errors a synthesis attempt of the provider fails with: status is
\* error.response.status (0 when the error carries no response)
Http429 == [status |-> 429, message |-> <<"R", "e", "q", "u", "e", "s", "t", " ", "f", "a", "i", "l", "e", "d", " ", "w", "i", "t", "h", " ", "s", "t", "a", "t", "u", "s", " ", "c", "o", "d", "e", " ", "4", "2", "9">>]
Http500 == [status |-> 500, message |-> <<"R", "e", "q", "u", "e", "s", "t", " ", "f", "a", "i", "l", "e", "d", " ", "w", "i", "t", "h", " ", "s", "t", "a", "t", "u", "s", " ", "c", "o", "d", "e", " ", "5", "0", "0">>]
NoAudioData == [status |-> 0, message |-> <<"N", "o", " ", "a", "u", "d", "i", "o", " ", "d", "a", "t", "a", " ", "r", "e", "c", "e", "i", "v", "e", "d", " ", "f", "r", "o", "m", " ", "G", "o", "o", "g", "l", "e", " ", "T", "T", "S", " ", "A", "P", "I">>]
Api429 == [status |-> 0, message |-> <<"4", "2", "9", " ", "R", "a", "t", "e", " ", "l", "i", "m", "i", "t", " ", "r", "e", "a", "c", "h", "e", "d">>]
ApiTooMany == [status |-> 0, message |-> <<"T", "o", "o", " ", "M", "a", "n", "y", " ", "R", "e", "q", "u", "e", "s", "t", "s">>]
Api500 == [status |-> 0, message |-> <<"5", "0", "0", " ", "I", "n", "t", "e", "r", "n", "a", "l", " ", "s", "e", "r", "v", "e", "r", " ", "e", "r", "r", "o", "r">>]

ProviderErrors(provider) ==
    IF provider = "google" THEN {Http429, Http500, NoAudioData}
    ELSE {Api429, ApiTooMany, Api500}

NoError == [status |-> 0, message |-> <<>>]

ValidationError == [status |-> 0, message |-> <<"C", "o", "n", "f", "i", "g", "u", "r", "a", "t", "i", "o", "n", " ", "v", "a", "l", "i", "d", "a", "t", "i", "o", "n", " ", "f", "a", "i", "l", "e", "d">>]

ContentNotFound == [status |-> 0, message |-> <<"C", "h", "a", "p", "t", "e", "r", " ", "c", "o", "n", "t", "e", "n", "t", " ", "n", "o", "t", " ", "f", "o", "u", "n", "d">>]

\* the audio the provider speaks for a text: one sample byte per character
SpeechAlphabet == <<" ", ".", "!", "?", "a", "b", "c", "d", "e", "f", "g", "h",
                    "i", "x", "y", "z", "H">>

SampleOf(c) ==
    IF \E k \in 1..Len(SpeechAlphabet) : SpeechAlphabet[k] = c
    THEN CHOOSE k \in 1..Len(SpeechAlphabet) : SpeechAlphabet[k] = c
    ELSE 0

Speech(text) == [k \in 1..Len(text) |-> SampleOf(text[k])]

\* what concatenateAudioFiles rethrows when reading a chunk file or writing
\* the output file fails
ConcatError == [status |-> 0, message |-> <<"E", "I", "O">>]

NoChapter == [id |-> "none", title |-> <<>>, order |-> 0, filename |-> "none"]

NoPath == [dir |-> "none", name |-> <<>>]

NoFiles == [f \in {} |-> <<>>]

\* fs.writeFile / fs.copy / fs.move into a directory
WriteFile(dir, name, bytes) ==
    [f \in DOMAIN dir \cup {name} |-> IF f = name THEN bytes ELSE dir[f]]

\* fs.remove
RemoveFiles(dir, names) == [f \in DOMAIN dir \ names |-> dir[f]]

----------------------------------------------------------------------------
(* ConfigManager                                                           *)

\* ConfigManager.getProviderConfig
getProviderConfig(provider) ==
    IF provider = "google" THEN googleTTSConfig ELSE openaiTTSConfig

\* field || default: the default replaces an absent field and a present one
\* holding the falsy value of its type (0, "" or false)
OrDefault(field, falsy, default) ==
    IF field = Undefined \/ field[1] = falsy THEN default ELSE field[1]

\* ConfigManager.getEffectiveOptions, cfg being getProviderConfig(provider)
getEffectiveOptions(cfg, opts) ==
    [provider |-> OrDefault(opts.provider, "", cfg.provider),
     voice |-> OrDefault(opts.voice, "", cfg.voice),
     model |-> OrDefault(opts.model, "", cfg.model),
     format |-> OrDefault(opts.format, "", cfg.format),
     force_regenerate |-> OrDefault(opts.force_regenerate, FALSE, FALSE),
     chunk_size |-> OrDefault(opts.chunk_size, 0, cfg.max_chunk_size),
     rate_limit_delay |-> OrDefault(opts.rate_limit_delay, 0,
                                    cfg.rate_limit_delay)]

\* validateProviderConfig that never looks at the API key
validateProviderConfigWithoutKey(cfg) == TRUE

\* ConfigManager.validateProviderConfig(provider).valid: the registered
\* defaults are in their catalogs, so the API key decides
validateProviderConfig(cfg) == cfg.api_key_set

----------------------------------------------------------------------------
(* ChapterAudioGenerator.findChapter                                       *)


\* FirstChapterAt taking the last position of hits
LastChapterAt(chapters, hits) ==
    IF hits = {} THEN NoChapter
    ELSE chapters[CHOOSE k \in hits : \A j \in hits : k >= j]

\* the first element of toc.chapters at one of the positions hits, or null
FirstChapterAt(chapters, hits) ==
    IF hits = {} THEN NoChapter
    ELSE chapters[CHOOSE k \in hits : \A j \in hits : k <= j]

findChapter(toc, identifier) ==
    LET chapterNum == parseInt(identifier)
        lowerIdentifier == toLowerCase(identifier)
    IN  IF ~chapterNum.isNaN
        THEN FirstChapterAt(toc.chapters,
                 {k \in 1..Len(toc.chapters) :
                     toc.chapters[k].order = chapterNum.value})
        ELSE FirstChapterAt(toc.chapters,
                 {k \in 1..Len(toc.chapters) :
                     Includes(toLowerCase(toc.chapters[k].title),
                              lowerIdentifier)})

----------------------------------------------------------------------------
(* UnifiedAudioGenerator.generateSingleAudio: the retry policy.  Delays    *)
(* are kept in thirds of a millisecond, so that retry_delay / 3 and its    *)
(* doublings are exact.                                                    *)

Thirds(ms) == 3 * ms

RECURSIVE Pow2(_)
Pow2(n) == IF n <= 0 THEN 1 ELSE 2 * Pow2(n - 1)

\* isRateLimit that looks at the HTTP status only
isRateLimitByStatusOnly(error) == error.status = 429

\* isRateLimit of the catch block
isRateLimit(error) ==
    \/ error.status = 429
    \/ Includes(error.message, <<"4", "2", "9">>)
    \/ Includes(error.message, <<"T", "o", "o", " ", "M", "a", "n", "y", " ", "R", "e", "q", "u", "e", "s", "t", "s">>)

\* baseDelay, in thirds of a millisecond
baseDelay(error, cfg) ==
    IF isRateLimit(error) THEN Thirds(cfg.retry_delay)
    ELSE Thirds(cfg.retry_delay) \div 3

\* backoffDelay = baseDelay * Math.pow(2, retries - 1), retries already
\* incremented
backoffDelay(error, cfg, retriesNow) ==
    baseDelay(error, cfg) * Pow2(retriesNow - 1)

\* RetriesExhausted with >= for >: one attempt fewer
RetriesExhaustedEarly(retriesNow, cfg) == retriesNow >= cfg.retry_attempts

\* if (retries > maxRetries) throw error
RetriesExhausted(retriesNow, cfg) == retriesNow > cfg.retry_attempts

\* the provider call without "await": generateSingleAudio returns at once
ProviderCallNotAwaited == "gsa_return"

\* "await" of the provider call: generateSingleAudio stays suspended until
\* the response of the request it issued has arrived
AwaitProviderCall == "gsa_await"

\* the bytes a successful attempt leaves at outputPath
SynthesizedBytes(cfg, normalizedText) ==
    IF cfg.provider = "google"
    THEN GoogleFileBytes(cfg.mimeType, Speech(normalizedText))
    ELSE Speech(normalizedText)

----------------------------------------------------------------------------
(* UnifiedAudioGenerator.generateAudioForText                              *)

\* ChunkPath without the chunk index in the file name
ChunkPathByTimeOnly(timestamp, i) == [ts |-> timestamp, idx |-> 0]

\* path.join(tempDir, `chunk_${Date.now()}_${i}.${extension}`)
ChunkPath(timestamp, i) == [ts |-> timestamp, idx |-> i]

\* RateLimitAfterChunk with the delay after the last chunk too
RateLimitAfterEveryChunk(i, chunkCount) == i < chunkCount

\* if (i < chunks.length - 1) await this.delay(this.options.rate_limit_delay)
RateLimitAfterChunk(i, chunkCount) == i < chunkCount - 1

RECURSIVE ConcatBuffers(_)
ConcatBuffers(buffers) ==
    IF buffers = <<>> THEN <<>>
    ELSE Head(buffers) \o ConcatBuffers(Tail(buffers))

\* concatenateAudioFiles: Buffer.concat of the files at inputPaths, in order
concatenateAudioFiles(temp, inputPaths) ==
    ConcatBuffers([k \in 1..Len(inputPaths) |-> temp[inputPaths[k]]])

----------------------------------------------------------------------------
(* What ChapterAudioGenerator prints: the text of the line without its     *)
(* emoji, and the stream it goes to.                                       *)

ConsoleLine(stream, text) == [stream |-> stream, text |-> text]

\* console.error(`Chapter not found: "${chapterIdentifier}" ...`)
ChapterNotFoundLine(identifier) ==
    ConsoleLine("error",
        <<"C", "h", "a", "p", "t", "e", "r", " ", "n", "o", "t", " ", "f",
          "o", "u", "n", "d", ":", " ", "\"">>
            \o identifier \o <<"\"">>)

\* console.log(`Audio generated successfully!`)
AudioGeneratedLine ==
    ConsoleLine("log",
        <<"A", "u", "d", "i", "o", " ", "g", "e", "n", "e", "r", "a", "t",
          "e", "d", " ", "s", "u", "c", "c", "e", "s", "s", "f", "u", "l",
          "l", "y", "!">>)

\* console.error(`Failed to generate audio for chapter ${identifier}:`, error):
\* the message, without the error object printed after it
ChapterFailedLine(identifier) ==
    ConsoleLine("error",
        <<"F", "a", "i", "l", "e", "d", " ", "t", "o", " ", "g", "e", "n",
          "e", "r", "a", "t", "e", " ", "a", "u", "d", "i", "o", " ", "f",
          "o", "r", " ", "c", "h", "a", "p", "t", "e", "r", " ">>
            \o identifier \o <<":">>)

\* console.log(`Batch processing completed!`)
BatchCompletedLine ==
    ConsoleLine("log",
        <<"B", "a", "t", "c", "h", " ", "p", "r", "o", "c", "e", "s", "s",
          "i", "n", "g", " ", "c", "o", "m", "p", "l", "e", "t", "e", "d",
          "!">>)

----------------------------------------------------------------------------
(* UnifiedAudioGenerator.log: the lines appended to audio-generation.log,  *)
(* as level, the fixed part of the message and the error it ends with.     *)

LogLine(level, message, error) ==
    [level |-> level, message |-> message, error |-> error]

\* the first statement of the provider function's try block
RequestLogLine(cfg) ==
    LogLine("info",
            IF cfg.provider = "google" THEN "Generating audio with Google TTS"
            ELSE "Generating audio with OpenAI TTS",
            NoError)

\* what the provider function logs from the response to its return
SuccessLogLines(cfg) ==
    IF cfg.provider = "google"
    THEN <<LogLine("info", "Received audio format", NoError)>>
         \o (IF IsRawPcm(cfg.mimeType)
             THEN <<LogLine("info", "Converting PCM to audio", NoError)>>
             ELSE <<>>)
         \o <<LogLine("info", "Audio generated successfully", NoError)>>
    ELSE <<LogLine("info", "Audio generated successfully", NoError)>>

\* the provider function rethrowing what it caught without a log line
ProviderCatchSilent(cfg, error) == <<>>

\* the catch block of the provider function: log(..., "error"), then rethrow
ProviderCatchLog(cfg, error) ==
    <<LogLine("error",
              IF cfg.provider = "google"
              THEN "Error generating audio with Google TTS"
              ELSE "Error generating audio",
              error)>>

\* generateBookAudio: log(`Chapter file not found: ...`, "warn")
ChapterFileNotFoundLine == LogLine("warn", "Chapter file not found", NoError)

\* generateSingleAudio: log(`Retry ${retries}/${maxRetries} ...`, "warn")
RetryLogLine == LogLine("warn", "Retry", NoError)

----------------------------------------------------------------------------
(* The generation run.                                                     *)

InitRunWith(m, ids, cfg, opts) ==
    /\ mode = m
    /\ identifiers = ids
    /\ idIndex = 0
    /\ outcomes = <<>>
    /\ config = cfg
    /\ options = opts
    /\ console = <<>>
    /\ now = 0
    /\ tocFile = BookToc
    /\ backupFiles = NoFiles
    /\ audioFiles = NoFiles
    /\ tempFiles = NoFiles
    /\ chapter = NoChapter
    /\ backupPath = 0
    /\ thrown = NoError
    /\ runToc = <<>>
    /\ chapterIndex = 1
    /\ audioPath = <<>>
    /\ chunks = <<>>
    /\ chunkIndex = 0
    /\ chunkPaths = <<>>
    /\ chunkAudio = <<>>
    /\ events = <<>>
    /\ outputPath = NoPath
    /\ retries = 0
    /\ attempts = 0
    /\ waits = <<>>
    /\ lastError = NoError
    /\ logLines = <<>>
    /\ inflight = {}

\* no generation run: the state of the run variables in the harnesses
RunIdle ==
    /\ pc = "idle"
    /\ InitRunWith("book", <<>>, CHOOSE c \in RunConfigs : TRUE,
                   CHOOSE o \in OptionSets : TRUE)
    /\ contentFiles = DOMAIN BookContent

InitRun ==
    /\ \E m \in {"chapters", "book"} :
       \E ids \in IF m = "chapters" THEN IdentifierLists ELSE {<<>>} :
       \E cfg \in RunConfigs :
       \E opts \in OptionSets :
           /\ pc = IF m = "chapters" THEN "gmc_loop" ELSE "gba_start"
           /\ InitRunWith(m, ids, cfg, opts)
    /\ contentFiles \in ContentFileSets

Range(seq) == {seq[k] : k \in 1..Len(seq)}

\* the locals of a call are gone once the call has returned or thrown
LeaveSingleAudio ==
    /\ outputPath' = NoPath
    /\ retries' = 0
    /\ attempts' = 0
    /\ waits' = <<>>
    /\ lastError' = NoError
    /\ logLines' = <<>>

LeaveAudioForText ==
    /\ chunks' = <<>>
    /\ chunkIndex' = 0
    /\ chunkPaths' = <<>>
    /\ chunkAudio' = <<>>
    /\ events' = <<>>

LeaveBookAudio ==
    /\ runToc' = <<>>
    /\ chapterIndex' = 1
    /\ audioPath' = <<>>

LeaveChapterAudio ==
    /\ chapter' = NoChapter
    /\ backupPath' = 0

\* generateChapterAudio returned to the loop of generateMultipleChapters:
\* the 3 s delay unless this was the last identifier, then i++
ReturnToChapterLoop(result) ==
    /\ outcomes' = Append(outcomes, [identifier |-> identifiers[idIndex + 1],
                                     result |-> result])
    /\ IF idIndex < Len(identifiers) - 1
       THEN pc' = "gmc_delay" /\ idIndex' = idIndex
       ELSE pc' = "gmc_loop" /\ idIndex' = idIndex + 1
    /\ thrown' = NoError

\* AfterChapterFailure without the catch block: the error ends the loop
AfterChapterFailureRethrown == "done"

\* where generateMultipleChapters goes on after its catch block
AfterChapterFailure == "gmc_loop"

\* generateChapterAudio threw: the catch block of the loop logs, then i++
CatchInChapterLoop ==
    /\ outcomes' = Append(outcomes, [identifier |-> identifiers[idIndex + 1],
                                     result |-> "failed"])
    /\ console' = Append(console,
                         ChapterFailedLine(identifiers[idIndex + 1]))
    /\ idIndex' = idIndex + 1
    /\ pc' = AfterChapterFailure
    /\ thrown' = NoError

\* OnChapterNotFound raising an error in place of the plain return
OnChapterNotFoundThrow == CatchInChapterLoop

\* generateChapterAudio: if (!chapter) { console.error(...); return; }
OnChapterNotFound ==
    /\ ReturnToChapterLoop("not_found")
    /\ console' = Append(console,
                         ChapterNotFoundLine(identifiers[idIndex + 1]))

\* generateMultipleChapters: the loop is over
GMC_Finish ==
    /\ pc = "gmc_loop"
    /\ idIndex >= Len(identifiers)
    /\ pc' = "done"
    /\ console' = Append(console, BatchCompletedLine)
    /\ UNCHANGED <<harnessVars, config, options, contentFiles, now, thrown, inflight,
                   fileVars, chapterRunVars, bookRunVars, textRunVars,
                   singleRunVars>>

\* generateMultipleChapters: the 3 s between two chapters are over
GMC_DelayElapsed ==
    /\ pc = "gmc_delay"
    /\ idIndex' = idIndex + 1
    /\ pc' = "gmc_loop"
    /\ UNCHANGED <<harnessVars, config, options, contentFiles, console, now, thrown, inflight,
                   fileVars, mode, identifiers, outcomes, chapter, backupPath,
                   bookRunVars, textRunVars, singleRunVars>>

\* generateChapterAudio up to the backup: validateBook, loadBookData,
\* findChapter and the check of the chapter's content file
GCA_FindChapter ==
    /\ pc = "gmc_loop"
    /\ idIndex < Len(identifiers)
    /\ LET found == findChapter(tocFile, identifiers[idIndex + 1])
       IN  IF found = NoChapter
           THEN OnChapterNotFound /\ chapter' = NoChapter
           ELSE IF found.filename \notin contentFiles
           THEN CatchInChapterLoop /\ chapter' = NoChapter
           ELSE /\ chapter' = found
                /\ pc' = "gca_backup"
                /\ UNCHANGED <<idIndex, outcomes, thrown, console>>
    /\ UNCHANGED <<harnessVars, config, options, contentFiles, now, inflight,
                   fileVars, mode, identifiers, backupPath,
                   bookRunVars, textRunVars, singleRunVars>>

\* generateChapterAudio: fs.copy(originalTocPath, backupTocPath)
GCA_BackupToc ==
    /\ pc = "gca_backup"
    /\ \E t \in now..MaxClock :
          /\ now' = t
          /\ backupPath' = t
          /\ backupFiles' = WriteFile(backupFiles, t, tocFile)
    /\ pc' = "gca_write"
    /\ UNCHANGED <<harnessVars, config, options, contentFiles, console, thrown, inflight,
                   tocFile, audioFiles, tempFiles,
                   mode, identifiers, idIndex, outcomes, chapter,
                   bookRunVars, textRunVars, singleRunVars>>

\* singleChapterToc keeping every chapter of the book
UnrestrictedToc(ch) == BookToc

\* generateChapterAudio: "a temporary TOC with just this chapter"
singleChapterToc(ch) == [totalChapters |-> 1, chapters |-> <<ch>>]

\* generateChapterAudio: fs.writeFile(originalTocPath, singleChapterToc)
GCA_WriteSingleToc ==
    /\ pc = "gca_write"
    /\ tocFile' = singleChapterToc(chapter)
    /\ pc' = "gba_start"
    /\ UNCHANGED <<harnessVars, config, options, contentFiles, console, now, thrown, inflight,
                   backupFiles, audioFiles, tempFiles, chapterRunVars,
                   bookRunVars, textRunVars, singleRunVars>>

\* generateChapterAudio: the finally block moves the backup over toc.yml;
\* then the call returns, or rethrows into the loop's catch block
GCA_RestoreToc ==
    /\ pc = "gca_finally"
    /\ tocFile' = backupFiles[backupPath]
    /\ backupFiles' = RemoveFiles(backupFiles, {backupPath})
    /\ IF thrown = NoError
       THEN ReturnToChapterLoop("ok") /\ console' = console
       ELSE CatchInChapterLoop
    /\ LeaveChapterAudio
    /\ UNCHANGED <<harnessVars, config, options, contentFiles, now, inflight,
                   audioFiles, tempFiles, mode, identifiers,
                   bookRunVars, textRunVars, singleRunVars>>

\* generateBookAudio: validateConfiguration
GBA_Validate ==
    /\ pc = "gba_start"
    /\ IF validateProviderConfig(config)
       THEN pc' = "gba_load" /\ thrown' = thrown
       ELSE pc' = "gba_throw" /\ thrown' = ValidationError
    /\ UNCHANGED <<harnessVars, config, options, contentFiles, console, now, inflight,
                   fileVars, chapterRunVars, bookRunVars, textRunVars,
                   singleRunVars>>

\* generateBookAudio: read toc.yml, create the audio directory
GBA_LoadToc ==
    /\ pc = "gba_load"
    /\ runToc' = tocFile.chapters
    /\ chapterIndex' = 1
    /\ pc' = "gba_loop"
    /\ UNCHANGED <<harnessVars, config, options, contentFiles, console, now, thrown, inflight,
                   fileVars, chapterRunVars, audioPath, textRunVars,
                   singleRunVars>>

\* generateBookAudio: one pass of the chapter loop up to the first chunk:
\* a chapter without content file is skipped; otherwise generateChapterAudio
\* reads the file and generateAudioForText splits its text
GBA_NextChapter ==
    /\ pc = "gba_loop"
    /\ chapterIndex <= Len(runToc)
    /\ LET ch == runToc[chapterIndex]
       IN  IF ch.filename \notin contentFiles
           THEN /\ chapterIndex' = chapterIndex + 1
                /\ logLines' = Append(logLines, ChapterFileNotFoundLine)
                /\ pc' = pc
                /\ UNCHANGED <<audioPath, textRunVars>>
           ELSE /\ audioPath' = AudioFilename(ch, config.extension)
                /\ logLines' = logLines
                /\ chunks' = splitTextIntoChunks(BookContent[ch.filename],
                                 getEffectiveOptions(config, options).chunk_size)
                /\ chunkIndex' = 0
                /\ chunkPaths' = <<>>
                /\ chunkAudio' = <<>>
                /\ events' = <<>>
                /\ pc' = IF Len(chunks') = 0 THEN "gat_concat" ELSE "gat_chunk"
                /\ chapterIndex' = chapterIndex
    /\ UNCHANGED <<harnessVars, config, options, contentFiles, console, now,
                   thrown, inflight, fileVars, chapterRunVars, runToc,
                   outputPath, retries, attempts, waits, lastError>>

\* generateBookAudio: the chapter loop is over, completion is logged
GBA_Complete ==
    /\ pc = "gba_loop"
    /\ chapterIndex > Len(runToc)
    /\ pc' = IF mode = "chapters" THEN "gca_finally" ELSE "done"
    /\ console' = IF mode = "chapters" THEN Append(console, AudioGeneratedLine)
                  ELSE console
    /\ LeaveBookAudio
    /\ UNCHANGED <<harnessVars, config, options, contentFiles, now, thrown, inflight,
                   fileVars, chapterRunVars, textRunVars, singleRunVars>>

\* generateBookAudio: the rate-limit delay after a chapter is over
GBA_ChapterDelayElapsed ==
    /\ pc = "gba_chapter_delay"
    /\ chapterIndex' = chapterIndex + 1
    /\ pc' = "gba_loop"
    /\ LeaveAudioForText
    /\ UNCHANGED <<harnessVars, config, options, contentFiles, console, now, thrown, inflight,
                   fileVars, chapterRunVars, runToc, audioPath, singleRunVars>>

\* ErrorHandler without the finally block of generateChapterAudio
ErrorSkipsFinally(m) == "failed"

\* ErrorHandler with a catch in the chapter loop of generateBookAudio, which
\* then goes on as if the chapter had been generated
ErrorCaughtInBookLoop(m) == "gba_chapter_delay"

\* the handler an error thrown inside generateBookAudio reaches: nothing in
\* generateSingleAudio's callers catches it before the finally block of
\* generateChapterAudio or, in a whole-book run, main(), which exits
ErrorHandler(m) == IF m = "chapters" THEN "gca_finally" ELSE "failed"

\* an error leaves generateBookAudio
PropagateError ==
    /\ pc \in {"gba_throw", "gsa_exhausted", "gat_throw"}
    /\ pc' = ErrorHandler(mode)
    /\ LeaveSingleAudio
    /\ LeaveAudioForText
    /\ LeaveBookAudio
    /\ UNCHANGED <<harnessVars, config, options, contentFiles, console, now, thrown, inflight,
                   fileVars, chapterRunVars>>

\* generateAudioForText: the call of generateSingleAudio for the next chunk,
\* to the chapter's audio path for a single chunk and to a fresh temp path
\* otherwise
GAT_StartChunk ==
    /\ pc = "gat_chunk"
    /\ IF Len(chunks) = 1
       THEN /\ outputPath' = [dir |-> "audio", name |-> audioPath]
            /\ now' = now
       ELSE \E t \in now..MaxClock :
               /\ now' = t
               /\ outputPath' = [dir |-> "temp", name |-> ChunkPath(t, chunkIndex)]
    /\ retries' = 0
    /\ attempts' = 0
    /\ waits' = <<>>
    /\ lastError' = NoError
    /\ logLines' = <<>>
    /\ pc' = "gsa_try"
    /\ UNCHANGED <<harnessVars, config, options, contentFiles, console, thrown, inflight,
                   fileVars, chapterRunVars, bookRunVars, textRunVars>>

\* generateSingleAudio: one pass of the retry loop sends the normalized chunk
\* to the provider
GSA_IssueRequest ==
    /\ pc = "gsa_try"
    /\ inflight' = inflight \cup
          {[chapter |-> runToc[chapterIndex].order,
            chunk |-> chunkIndex,
            attempt |-> attempts + 1,
            text |-> normalizeTextForTTS(chunks[chunkIndex + 1],
                                         DefaultTextProcessing)]}
    /\ attempts' = attempts + 1
    /\ logLines' = Append(logLines, RequestLogLine(config))
    /\ pc' = AwaitProviderCall
    /\ UNCHANGED <<harnessVars, config, options, contentFiles, console, now, thrown,
                   fileVars, chapterRunVars, bookRunVars, textRunVars,
                   outputPath, retries, waits, lastError>>

\* the provider answers with audio: the file is written, the call returns
GSA_ResponseOk ==
    /\ pc = "gsa_await"
    /\ \E req \in inflight :
          LET bytes == SynthesizedBytes(config, req.text)
          IN  /\ inflight' = inflight \ {req}
              /\ IF outputPath.dir = "audio"
                 THEN /\ audioFiles' = WriteFile(audioFiles, outputPath.name, bytes)
                      /\ tempFiles' = tempFiles
                 ELSE /\ tempFiles' = WriteFile(tempFiles, outputPath.name, bytes)
                      /\ audioFiles' = audioFiles
              /\ chunkAudio' = Append(chunkAudio,
                                      [chunk |-> req.chunk, bytes |-> bytes])
    /\ logLines' = logLines \o SuccessLogLines(config)
    /\ pc' = "gsa_return"
    /\ UNCHANGED <<harnessVars, config, options, contentFiles, console, now, thrown,
                   tocFile, backupFiles, chapterRunVars, bookRunVars,
                   chunks, chunkIndex, chunkPaths, events,
                   outputPath, retries, attempts, waits, lastError>>

\* the attempt fails: the provider function logs and rethrows, the catch
\* block counts the failure and either rethrows or logs the retry and starts
\* the backoff delay
GSA_ResponseError ==
    /\ pc = "gsa_await"
    /\ \E req \in inflight :
       \E error \in ProviderErrors(config.provider) :
          /\ inflight' = inflight \ {req}
          /\ lastError' = error
          /\ retries' = retries + 1
          /\ IF RetriesExhausted(retries + 1, config)
             THEN /\ thrown' = error
                  /\ waits' = waits
                  /\ logLines' = logLines \o ProviderCatchLog(config, error)
                  /\ pc' = "gsa_exhausted"
             ELSE /\ thrown' = thrown
                  /\ waits' = Append(waits,
                        [error |-> error,
                         delay |-> backoffDelay(error, config, retries + 1)])
                  /\ logLines' = logLines \o ProviderCatchLog(config, error)
                                           \o <<RetryLogLine>>
                  /\ pc' = "gsa_backoff"
    /\ UNCHANGED <<harnessVars, config, options, contentFiles, console, now,
                   fileVars, chapterRunVars, bookRunVars, textRunVars,
                   outputPath, attempts>>

\* generateSingleAudio: the backoff delay is over, the loop goes round
GSA_BackoffElapsed ==
    /\ pc = "gsa_backoff"
    /\ pc' = "gsa_try"
    /\ UNCHANGED <<harnessVars, config, options, contentFiles, console, now, thrown, inflight,
                   fileVars, chapterRunVars, bookRunVars, textRunVars,
                   singleRunVars>>

\* generateAudioForText after generateSingleAudio returned: a single chunk
\* ends the chapter; otherwise the chunk path is kept and the rate-limit
\* delay starts unless this was the last chunk
GAT_ChunkDone ==
    /\ pc = "gsa_return"
    /\ IF Len(chunks) = 1
       THEN /\ events' = Append(events, [type |-> "synth", value |-> chunkIndex])
            /\ chunkPaths' = chunkPaths
            /\ pc' = "gba_chapter_delay"
       ELSE /\ chunkPaths' = Append(chunkPaths, outputPath.name)
            /\ IF RateLimitAfterChunk(chunkIndex, Len(chunks))
               THEN /\ events' = events \o
                          <<[type |-> "synth", value |-> chunkIndex],
                            [type |-> "delay",
                             value |-> getEffectiveOptions(config, options)
                                           .rate_limit_delay]>>
                    /\ pc' = "gat_rate_delay"
               ELSE /\ events' = Append(events,
                                        [type |-> "synth", value |-> chunkIndex])
                    /\ pc' = "gat_concat"
    /\ LeaveSingleAudio
    /\ UNCHANGED <<harnessVars, config, options, contentFiles, console, now, thrown, inflight,
                   fileVars, chapterRunVars, bookRunVars, chunks, chunkIndex,
                   chunkAudio>>

\* generateAudioForText: the rate-limit delay is over, i++
GAT_RateDelayElapsed ==
    /\ pc = "gat_rate_delay"
    /\ chunkIndex' = chunkIndex + 1
    /\ pc' = "gat_chunk"
    /\ UNCHANGED <<harnessVars, config, options, contentFiles, console, now, thrown, inflight,
                   fileVars, chapterRunVars, bookRunVars, chunks, chunkPaths,
                   chunkAudio, events, singleRunVars>>

\* generateAudioForText: concatenateAudioFiles(chunkPaths, outputPath)
GAT_Concatenate ==
    /\ pc = "gat_concat"
    /\ Range(chunkPaths) \subseteq DOMAIN tempFiles
    /\ audioFiles' = WriteFile(audioFiles, audioPath,
                               concatenateAudioFiles(tempFiles, chunkPaths))
    /\ pc' = "gat_cleanup"
    /\ UNCHANGED <<harnessVars, config, options, contentFiles, console, now, thrown, inflight,
                   tocFile, backupFiles, tempFiles, chapterRunVars, bookRunVars,
                   textRunVars, singleRunVars>>

\* concatenateAudioFiles: fs.readFile or fs.writeFile fails; the catch block
\* logs the error and rethrows it
GAT_ConcatenateFailed ==
    /\ pc = "gat_concat"
    /\ thrown' = ConcatError
    /\ logLines' = Append(logLines,
                          LogLine("error", "Error concatenating audio files",
                                  ConcatError))
    /\ pc' = "gat_throw"
    /\ UNCHANGED <<harnessVars, config, options, contentFiles, console, now, inflight,
                   fileVars, chapterRunVars, bookRunVars, textRunVars,
                   outputPath, retries, attempts, waits, lastError>>

\* generateAudioForText: fs.remove of every chunk file
GAT_Cleanup ==
    /\ pc = "gat_cleanup"
    /\ tempFiles' = RemoveFiles(tempFiles, Range(chunkPaths))
    /\ pc' = "gba_chapter_delay"
    /\ UNCHANGED <<harnessVars, config, options, contentFiles, console, now, thrown, inflight,
                   tocFile, backupFiles, audioFiles, chapterRunVars, bookRunVars,
                   textRunVars, singleRunVars>>

NextRun ==
    \/ GMC_Finish
    \/ GMC_DelayElapsed
    \/ GCA_FindChapter
    \/ GCA_BackupToc
    \/ GCA_WriteSingleToc
    \/ GCA_RestoreToc
    \/ GBA_Validate
    \/ GBA_LoadToc
    \/ GBA_NextChapter
    \/ GBA_Complete
    \/ GBA_ChapterDelayElapsed
    \/ PropagateError
    \/ GAT_StartChunk
    \/ GSA_IssueRequest
    \/ GSA_ResponseOk
    \/ GSA_ResponseError
    \/ GSA_BackoffElapsed
    \/ GAT_ChunkDone
    \/ GAT_RateDelayElapsed
    \/ GAT_Concatenate
    \/ GAT_ConcatenateFailed
    \/ GAT_Cleanup

----------------------------------------------------------------------------
(* Chunker harness: one call of splitTextIntoChunks on a bounded input.    *)

SplitIdle ==
    /\ splitPc = "idle"
    /\ splitText = <<>>
    /\ splitMax = 1
    /\ splitCuts = <<>>
    /\ splitChunks = <<>>

NormIdle ==
    /\ normPc = "idle"
    /\ normSettings = DefaultTextProcessing
    /\ normText = <<>>
    /\ normOnce = <<>>
    /\ normTwice = <<>>

CallIdle ==
    /\ callPc = "idle"
    /\ callArgs = <<>>
    /\ callResult = <<>>

OverlapIdle ==
    /\ genPc = <<>>
    /\ genIdentifier = <<>>
    /\ genChapter = <<>>
    /\ genBackupPath = <<>>
    /\ genBackedUp = <<>>

BatchIdle ==
    /\ batchPc = "idle"
    /\ batchOptions = <<>>
    /\ bookFiles = <<>>
    /\ batchI = 0
    /\ bookState = <<>>
    /\ bookResult = <<>>
    /\ bookCalls = <<>>
    /\ batchTally = <<>>
    /\ batchSummary = <<>>

InitSplit ==
    /\ splitPc = "ready"
    /\ splitText \in StringsUpTo(SplitAlphabet, MaxTextLen)
    /\ splitMax \in 1..MaxChunkSize
    /\ splitCuts = <<>>
    /\ splitChunks = <<>>
    /\ NormIdle
    /\ CallIdle
    /\ BatchIdle
    /\ OverlapIdle
    /\ RunIdle

CallSplit ==
    /\ splitPc = "ready"
    /\ splitPc' = "done"
    /\ splitCuts' = IF Len(splitText) <= splitMax THEN <<>>
                    ELSE SplitCuts(splitText, 0, splitMax)
    /\ splitChunks' = splitTextIntoChunks(splitText, splitMax)
    /\ UNCHANGED <<splitText, splitMax, normVars, callVars, batchVars, overlapVars,
                   runVars>>

NextSplit == CallSplit

SpecSplit == InitSplit /\ [][NextSplit]_vars

----------------------------------------------------------------------------
(* Normalizer harness: normalizeTextForTTS on a bounded input, then on its *)
(* own result.                                                             *)

MaxNormLen == 5

NormAlphabet == {"a", " ", "\n", "-", "*", "[", "]", "1"}

InitNorm ==
    /\ normPc = "ready"
    /\ normSettings \in [clean_markdown : BOOLEAN, remove_footnotes : BOOLEAN,
                          normalize_whitespace : BOOLEAN]
    /\ normText \in StringsUpTo(NormAlphabet, MaxNormLen)
    /\ normOnce = <<>>
    /\ normTwice = <<>>
    /\ SplitIdle
    /\ CallIdle
    /\ BatchIdle
    /\ OverlapIdle
    /\ RunIdle

CallNormalize ==
    /\ normPc = "ready"
    /\ normOnce' = normalizeTextForTTS(normText, normSettings)
    /\ normPc' = "once"
    /\ UNCHANGED <<normSettings, normText, normTwice, splitVars, callVars,
                   batchVars, overlapVars,
                   runVars>>

CallNormalizeAgain ==
    /\ normPc = "once"
    /\ normTwice' = normalizeTextForTTS(normOnce, normSettings)
    /\ normPc' = "twice"
    /\ UNCHANGED <<normSettings, normText, normOnce, splitVars, callVars,
                   batchVars, overlapVars,
                   runVars>>

NextNorm == CallNormalize \/ CallNormalizeAgain

SpecNorm == InitNorm /\ [][NextNorm]_vars

----------------------------------------------------------------------------
(* Call harness for findChapter: one call on a bounded identifier.         *)

MaxIdLen == 3

FindAlphabet == {"0", "1", "2", "x", "e", "N", " ", "-"}

\* a table of contents whose order values are neither sorted nor unique
ShelfToc ==
    [totalChapters |-> 3,
     chapters |-> <<
        [id |-> "s1", title |-> <<"N", "1">>, order |-> 2, filename |-> "a.md"],
        [id |-> "s2", title |-> <<"e", "n">>, order |-> 1, filename |-> "b.md"],
        [id |-> "s3", title |-> <<"E", "-", "n">>, order |-> 2, filename |-> "c.md"]>>]

InitFind ==
    /\ callPc = "ready"
    /\ callArgs \in [identifier : StringsUpTo(FindAlphabet, MaxIdLen),
                     toc : {BookToc, ShelfToc}]
    /\ callResult = <<>>
    /\ SplitIdle
    /\ NormIdle
    /\ BatchIdle
    /\ OverlapIdle
    /\ RunIdle

CallFindChapter ==
    /\ callPc = "ready"
    /\ callResult' = findChapter(callArgs.toc, callArgs.identifier)
    /\ callPc' = "returned"
    /\ UNCHANGED <<callArgs, splitVars, normVars, batchVars, overlapVars,
                   runVars>>

NextFind == CallFindChapter

SpecFind == InitFind /\ [][NextFind]_vars

----------------------------------------------------------------------------
(* Call harness for createWavFile: one call on a bounded PCM buffer.       *)

MaxPcmLen == 3

PcmBytes == {0, 1, 255}

RECURSIVE BuffersUpTo(_)
BuffersUpTo(n) ==
    IF n = 0 THEN {<<>>}
    ELSE LET shorter == BuffersUpTo(n - 1)
         IN  shorter \cup {Append(b, v) : b \in {c \in shorter : Len(c) = n - 1},
                                          v \in PcmBytes}

\* sample rates for which sampleRate * 2 is in the range of writeUInt32LE:
\* telephone, the default of convertPCMToAudio, CD, and two rates that use
\* all four bytes of the fields
WavSampleRates == {8000, DefaultSampleRate, 44100, 305419896, 1073741823}

InitWav ==
    /\ callPc = "ready"
    /\ callArgs \in [pcmBuffer : BuffersUpTo(MaxPcmLen),
                     sampleRate : WavSampleRates]
    /\ callResult = <<>>
    /\ SplitIdle
    /\ NormIdle
    /\ BatchIdle
    /\ OverlapIdle
    /\ RunIdle

\* createWavFile(pcmBuffer, outputPath, sampleRate): callResult is the file
CallCreateWavFile ==
    /\ callPc = "ready"
    /\ callResult' = createWavFile(callArgs.pcmBuffer, callArgs.sampleRate)
    /\ callPc' = "returned"
    /\ UNCHANGED <<callArgs, splitVars, normVars, batchVars, overlapVars,
                   runVars>>

NextWav == CallCreateWavFile

SpecWav == InitWav /\ [][NextWav]_vars

----------------------------------------------------------------------------
(* Call harness for getEffectiveOptions: one call on a set of overrides.   *)

\* ChapterAudioOptions: every field absent, falsy or holding a value
OverrideSets ==
    [provider : {Undefined, Given("openai")},
     voice : {Undefined, Given(""), Given("Puck")},
     model : {Undefined, Given("tts-1-hd")},
     format : {Undefined, Given("mp3")},
     force_regenerate : {Undefined, Given(FALSE), Given(TRUE)},
     chunk_size : {Undefined, Given(0), Given(4)},
     rate_limit_delay : {Undefined, Given(0), Given(500)}]

InitOptions ==
    /\ callPc = "ready"
    /\ callArgs \in [provider : {"google", "openai"}, options : OverrideSets]
    /\ callResult = <<>>
    /\ SplitIdle
    /\ NormIdle
    /\ BatchIdle
    /\ OverlapIdle
    /\ RunIdle

CallGetEffectiveOptions ==
    /\ callPc = "ready"
    /\ callResult' = getEffectiveOptions(getProviderConfig(callArgs.provider),
                                         callArgs.options)
    /\ callPc' = "returned"
    /\ UNCHANGED <<callArgs, splitVars, normVars, batchVars, overlapVars,
                   runVars>>

NextOptions == CallGetEffectiveOptions

SpecOptions == InitOptions /\ [][NextOptions]_vars

----------------------------------------------------------------------------
(* Call harness for the text pipeline of generateAudioForText: from the    *)
(* chapter text to the texts generateSingleAudio sends to the provider.    *)

MaxPipeLen == 5

PipeAlphabet == {"a", " ", ".", "*"}

\* generateAudioForText and generateSingleAudio: splitTextIntoChunks(text),
\* then for each chunk normalizeTextForTTS(chunk) is what the provider gets
ProviderTexts(text, chunkSize) ==
    LET pieces == splitTextIntoChunks(text, chunkSize)
    IN  [k \in 1..Len(pieces) |->
            normalizeTextForTTS(pieces[k], DefaultTextProcessing)]

InitPipe ==
    /\ callPc = "ready"
    /\ callArgs \in [text : StringsUpTo(PipeAlphabet, MaxPipeLen),
                     chunk_size : 1..MaxChunkSize]
    /\ callResult = <<>>
    /\ SplitIdle
    /\ NormIdle
    /\ BatchIdle
    /\ OverlapIdle
    /\ RunIdle

CallGenerateAudioForText ==
    /\ callPc = "ready"
    /\ callResult' = ProviderTexts(callArgs.text, callArgs.chunk_size)
    /\ callPc' = "returned"
    /\ UNCHANGED <<callArgs, splitVars, normVars, batchVars, overlapVars,
                   runVars>>

NextPipe == CallGenerateAudioForText

SpecPipe == InitPipe /\ [][NextPipe]_vars

----------------------------------------------------------------------------
(* The audio file names generateBookAudio gives two chapters of one book.  *)

MaxTitleLen == 2

MaxOrder == 2

\* chapter.order values: the small ones and some of two and three digits
ChapterOrders == 1..MaxOrder \cup {10, 100}

\* characters of a title: a digit, a hyphen, white space, a letter and one
\* that sanitizeFilename removes
TitleAlphabet == {"0", "-", " ", "a", "!"}

TitledChapters ==
    [order : ChapterOrders, title : StringsUpTo(TitleAlphabet, MaxTitleLen)]

InitNames ==
    /\ callPc = "ready"
    /\ callArgs \in [first : TitledChapters, second : TitledChapters,
                     extension : {googleTTSConfig.extension,
                                  openaiTTSConfig.extension}]
    /\ callResult = <<>>
    /\ SplitIdle
    /\ NormIdle
    /\ BatchIdle
    /\ OverlapIdle
    /\ RunIdle

\* generateBookAudio: audioFilename of each of the two chapters
CallAudioFilename ==
    /\ callPc = "ready"
    /\ callResult' = <<AudioFilename(callArgs.first, callArgs.extension),
                       AudioFilename(callArgs.second, callArgs.extension)>>
    /\ callPc' = "returned"
    /\ UNCHANGED <<callArgs, splitVars, normVars, batchVars, overlapVars,
                   runVars>>

NextNames == CallAudioFilename

SpecNames == InitNames /\ [][NextNames]_vars

----------------------------------------------------------------------------
(* BatchProcessor: run() over the book files found, in groups of           *)
(* maxConcurrent or one by one.                                            *)

MaxBooks == 3
MaxConcurrent == 2

\* a book file as processBook meets it: whether its output directory with
\* metadata.yml exists already, and whether convertEpubToMarkdown succeeds
\* a book file: whether its book directory with metadata.yml exists already,
\* whether convertEpubToMarkdown returns rather than throws on it, and
\* whether generateBookAudio does
BookFileKinds == [processed : BOOLEAN, converts : BOOLEAN, audio : BOOLEAN]

RECURSIVE ShelvesUpTo(_)
ShelvesUpTo(n) ==
    IF n = 0 THEN {<<>>}
    ELSE LET shorter == ShelvesUpTo(n - 1)
         IN  shorter \cup {Append(f, k) : f \in {g \in shorter : Len(g) = n - 1},
                                          k \in BookFileKinds}

BatchOptionSets ==
    [parallel : BOOLEAN, maxConcurrent : 1..MaxConcurrent,
     skipExisting : BOOLEAN, audioGeneration : BOOLEAN]

Min(a, b) == IF a < b THEN a ELSE b

\* the processBook invocations that have started and not settled
BooksInFlight == {b \in 1..Len(bookFiles) : bookState[b] \notin {"idle", "settled"}}

\* bookPaths.slice(i, i + maxConcurrent), as positions
BatchSlice(i) == (i + 1)..Min(i + batchOptions.maxConcurrent, Len(bookFiles))

\* the invocations of the group run on without the loop waiting for them
GroupNotAwaited(group) == TRUE

\* await Promise.allSettled(batchPromises)
GroupSettled(group) == \A b \in group : bookState[b] = "settled"

InitBatch ==
    /\ batchPc = "run"
    /\ batchOptions \in BatchOptionSets
    /\ bookFiles \in ShelvesUpTo(MaxBooks)
    /\ batchI = 0
    /\ bookState = [b \in 1..Len(bookFiles) |-> "idle"]
    /\ bookResult = [b \in 1..Len(bookFiles) |-> "pending"]
    /\ bookCalls = [b \in 1..Len(bookFiles) |-> 0]
    /\ batchTally = [successful |-> 0, failed |-> 0]
    /\ batchSummary = <<>>
    /\ SplitIdle
    /\ NormIdle
    /\ CallIdle
    /\ OverlapIdle
    /\ RunIdle

\* run(): findBookFiles, then the choice between the two loops
Run_FindBooks ==
    /\ batchPc = "run"
    /\ batchPc' = IF Len(bookFiles) = 0 THEN "done"
                  ELSE IF batchOptions.parallel /\ Len(bookFiles) > 1
                       THEN "pbc_loop"
                       ELSE "pbs_loop"
    /\ UNCHANGED <<batchOptions, bookFiles, batchI, bookState, bookResult,
                   bookCalls, batchTally, batchSummary,
                   splitVars, normVars, callVars, overlapVars,
                   runVars>>

\* processBook(bookPath) is called: it runs up to its first await
StartBooks(group) ==
    /\ bookState' = [b \in 1..Len(bookFiles) |->
                        IF b \in group THEN "started" ELSE bookState[b]]
    /\ bookCalls' = [b \in 1..Len(bookFiles) |->
                        IF b \in group THEN bookCalls[b] + 1 ELSE bookCalls[b]]

\* processBook: the check for an existing book directory with metadata.yml
PB_CheckExisting(b) ==
    /\ bookState[b] = "started"
    /\ IF batchOptions.skipExisting /\ bookFiles[b].processed
       THEN /\ bookState' = [bookState EXCEPT ![b] = "settled"]
            /\ bookResult' = [bookResult EXCEPT ![b] = "dir"]
       ELSE /\ bookState' = [bookState EXCEPT ![b] = "converting"]
            /\ UNCHANGED bookResult
    /\ UNCHANGED <<batchPc, batchOptions, bookFiles, batchI, bookCalls,
                   batchTally, batchSummary,
                   splitVars, normVars, callVars, overlapVars,
                   runVars>>

\* processBook: convertEpubToMarkdown returned or threw
PB_Convert(b) ==
    /\ bookState[b] = "converting"
    /\ IF ~bookFiles[b].converts
       THEN /\ bookState' = [bookState EXCEPT ![b] = "settled"]
            /\ bookResult' = [bookResult EXCEPT ![b] = "null"]
       ELSE IF batchOptions.audioGeneration
       THEN /\ bookState' = [bookState EXCEPT ![b] = "audio"]
            /\ UNCHANGED bookResult
       ELSE /\ bookState' = [bookState EXCEPT ![b] = "settled"]
            /\ bookResult' = [bookResult EXCEPT ![b] = "dir"]
    /\ UNCHANGED <<batchPc, batchOptions, bookFiles, batchI, bookCalls,
                   batchTally, batchSummary,
                   splitVars, normVars, callVars, overlapVars,
                   runVars>>

\* processBook with the audio error reaching the outer catch
ResultWithAudioRethrown(audioGenerated) ==
    IF audioGenerated THEN "dir" ELSE "null"

\* processBook after generateBookAudio returned or threw: the inner catch
\* only logs, so both ways return processedBookDir is next
ResultAfterAudio(audioGenerated) == "dir"

\* processBook: generateBookAudio returned or threw
PB_Audio(b) ==
    /\ bookState[b] = "audio"
    /\ bookState' = [bookState EXCEPT ![b] = "settled"]
    /\ bookResult' = [bookResult EXCEPT ![b] =
                         ResultAfterAudio(bookFiles[b].audio)]
    /\ UNCHANGED <<batchPc, batchOptions, bookFiles, batchI, bookCalls,
                   batchTally, batchSummary,
                   splitVars, normVars, callVars, overlapVars,
                   runVars>>

\* processBooksConcurrently: batch = slice(i, i + maxConcurrent);
\* batch.map(processBook)
PBC_StartGroup ==
    /\ batchPc = "pbc_loop"
    /\ batchI < Len(bookFiles)
    /\ StartBooks(BatchSlice(batchI))
    /\ batchPc' = "pbc_await"
    /\ UNCHANGED <<batchOptions, bookFiles, batchI, bookResult,
                   batchTally, batchSummary,
                   splitVars, normVars, callVars, overlapVars,
                   runVars>>

\* processBooksConcurrently: allSettled of the group resolved, i += maxConcurrent
PBC_GroupSettled ==
    /\ batchPc = "pbc_await"
    /\ GroupSettled(BatchSlice(batchI))
    /\ batchI' = batchI + batchOptions.maxConcurrent
    /\ batchPc' = "pbc_loop"
    /\ UNCHANGED <<batchOptions, bookFiles, bookState, bookResult, bookCalls,
                   batchTally, batchSummary,
                   splitVars, normVars, callVars, overlapVars,
                   runVars>>

\* processBooksConcurrently: the final allSettled and the summary
PBC_Summary ==
    /\ batchPc = "pbc_loop"
    /\ batchI >= Len(bookFiles)
    /\ GroupSettled(1..Len(bookFiles))
    /\ LET successful == Cardinality({b \in 1..Len(bookFiles) :
                                         bookResult[b] # "null"})
       IN  batchSummary' = <<[successful |-> successful,
                              failed |-> Len(bookFiles) - successful]>>
    /\ batchPc' = "done"
    /\ UNCHANGED <<batchOptions, bookFiles, batchI, bookState, bookResult,
                   bookCalls, batchTally,
                   splitVars, normVars, callVars, overlapVars,
                   runVars>>

\* processBooksSequentially: processBook(bookPaths[i]) is called and awaited
PBS_StartBook ==
    /\ batchPc = "pbs_loop"
    /\ batchI < Len(bookFiles)
    /\ StartBooks({batchI + 1})
    /\ batchPc' = "pbs_await"
    /\ UNCHANGED <<batchOptions, bookFiles, batchI, bookResult,
                   batchTally, batchSummary,
                   splitVars, normVars, callVars, overlapVars,
                   runVars>>

\* processBooksSequentially: if (result) successful++ else failed++; i++
PBS_BookSettled ==
    /\ batchPc = "pbs_await"
    /\ bookState[batchI + 1] = "settled"
    /\ batchTally' = IF bookResult[batchI + 1] # "null"
                     THEN [batchTally EXCEPT !.successful = @ + 1]
                     ELSE [batchTally EXCEPT !.failed = @ + 1]
    /\ batchI' = batchI + 1
    /\ batchPc' = "pbs_loop"
    /\ UNCHANGED <<batchOptions, bookFiles, bookState, bookResult, bookCalls,
                   batchSummary, splitVars, normVars, callVars, overlapVars,
                   runVars>>

\* processBooksSequentially: the summary
PBS_Summary ==
    /\ batchPc = "pbs_loop"
    /\ batchI >= Len(bookFiles)
    /\ batchSummary' = <<batchTally>>
    /\ batchPc' = "done"
    /\ UNCHANGED <<batchOptions, bookFiles, batchI, bookState, bookResult,
                   bookCalls, batchTally,
                   splitVars, normVars, callVars, overlapVars,
                   runVars>>

NextBatch ==
    \/ Run_FindBooks
    \/ PBC_StartGroup
    \/ PBC_GroupSettled
    \/ PBC_Summary
    \/ PBS_StartBook
    \/ PBS_BookSettled
    \/ PBS_Summary
    \/ \E b \in 1..Len(bookFiles) : PB_CheckExisting(b)
    \/ \E b \in 1..Len(bookFiles) : PB_Convert(b)
    \/ \E b \in 1..Len(bookFiles) : PB_Audio(b)

SpecBatch == InitBatch /\ [][NextBatch]_vars

----------------------------------------------------------------------------
(* Overlapping calls of ChapterAudioGenerator.generateChapterAudio on one  *)
(* book directory: each call backs up toc.yml, overwrites it, generates    *)
(* and moves its backup back.  The files are those of the generation run.  *)

MaxOverlap == 2

Overlapping == 1..MaxOverlap

\* fs.move(backupTocPath, originalTocPath) leaving toc.yml as it is
MoveWithoutOverwrite(backup, current) == current

\* fs.move(backupTocPath, originalTocPath, { overwrite: true }): toc.yml
\* afterwards
MoveOverwriting(backup, current) == backup

\* the run variables an overlapping call leaves alone
overlapFrame == <<pc, config, options, contentFiles, console, thrown, inflight,
                  audioFiles, tempFiles, chapterRunVars, bookRunVars,
                  textRunVars, singleRunVars>>

InitOverlap ==
    /\ genPc = [r \in Overlapping |-> "start"]
    /\ genIdentifier \in [Overlapping -> {<<"1">>, <<"2">>, <<"3">>}]
    /\ genChapter = [r \in Overlapping |-> NoChapter]
    /\ genBackupPath = [r \in Overlapping |-> 0]
    /\ genBackedUp = [r \in Overlapping |-> <<>>]
    /\ SplitIdle
    /\ NormIdle
    /\ CallIdle
    /\ BatchIdle
    /\ RunIdle

\* generateChapterAudio: findChapter on toc.yml as it is now; not found
\* returns
OV_FindChapter(r) ==
    /\ genPc[r] = "start"
    /\ LET found == findChapter(tocFile, genIdentifier[r])
       IN  IF found = NoChapter
           THEN /\ genPc' = [genPc EXCEPT ![r] = "returned"]
                /\ UNCHANGED genChapter
           ELSE /\ genPc' = [genPc EXCEPT ![r] = "backup"]
                /\ genChapter' = [genChapter EXCEPT ![r] = found]
    /\ UNCHANGED <<genIdentifier, genBackupPath, genBackedUp, tocFile,
                   backupFiles, now, overlapFrame,
                   splitVars, normVars, callVars, batchVars>>

\* generateChapterAudio: fs.copy(originalTocPath, `.toc-backup-${Date.now()}.yml`)
OV_BackupToc(r) ==
    /\ genPc[r] = "backup"
    /\ \E t \in now..MaxClock :
          /\ now' = t
          /\ genBackupPath' = [genBackupPath EXCEPT ![r] = t]
          /\ backupFiles' = WriteFile(backupFiles, t, tocFile)
    /\ genBackedUp' = [genBackedUp EXCEPT ![r] = <<tocFile>>]
    /\ genPc' = [genPc EXCEPT ![r] = "write"]
    /\ UNCHANGED <<genIdentifier, genChapter, tocFile, overlapFrame,
                   splitVars, normVars, callVars, batchVars>>

\* generateChapterAudio: fs.writeFile(originalTocPath, singleChapterToc)
OV_WriteSingleToc(r) ==
    /\ genPc[r] = "write"
    /\ tocFile' = singleChapterToc(genChapter[r])
    /\ genPc' = [genPc EXCEPT ![r] = "generate"]
    /\ UNCHANGED <<genIdentifier, genChapter, genBackupPath, genBackedUp,
                   backupFiles, now, overlapFrame,
                   splitVars, normVars, callVars, batchVars>>

\* generateChapterAudio: generateBookAudio has returned or thrown, either
\* way the finally block is next
OV_Generated(r) ==
    /\ genPc[r] = "generate"
    /\ genPc' = [genPc EXCEPT ![r] = "finally"]
    /\ UNCHANGED <<genIdentifier, genChapter, genBackupPath, genBackedUp,
                   tocFile, backupFiles, now, overlapFrame,
                   splitVars, normVars, callVars, batchVars>>

\* generateChapterAudio: the finally block moves the backup over toc.yml;
\* the move throws if another call has moved the same backup file already
OV_RestoreToc(r) ==
    /\ genPc[r] = "finally"
    /\ IF genBackupPath[r] \in DOMAIN backupFiles
       THEN /\ tocFile' = MoveOverwriting(backupFiles[genBackupPath[r]], tocFile)
            /\ backupFiles' = RemoveFiles(backupFiles, {genBackupPath[r]})
            /\ genPc' = [genPc EXCEPT ![r] = "returned"]
       ELSE /\ genPc' = [genPc EXCEPT ![r] = "threw"]
            /\ UNCHANGED <<tocFile, backupFiles>>
    /\ UNCHANGED <<genIdentifier, genChapter, genBackupPath, genBackedUp,
                   now, overlapFrame,
                   splitVars, normVars, callVars, batchVars>>

NextOverlap ==
    \/ \E r \in Overlapping : OV_FindChapter(r)
    \/ \E r \in Overlapping : OV_BackupToc(r)
    \/ \E r \in Overlapping : OV_WriteSingleToc(r)
    \/ \E r \in Overlapping : OV_Generated(r)
    \/ \E r \in Overlapping : OV_RestoreToc(r)

SpecOverlap == InitOverlap /\ [][NextOverlap]_vars

----------------------------------------------------------------------------
(* The generation run as a specification.                                  *)

Init == InitRun /\ SplitIdle /\ NormIdle /\ CallIdle /\ BatchIdle /\ OverlapIdle

Next == NextRun

Spec == Init /\ [][Next]_vars

----------------------------------------------------------------------------
(* Properties of the generation run.                                       *)

HasAudio(ch) == AudioFilename(ch, config.extension) \in DOMAIN audioFiles

\* C1: generateMultipleChapters handles the identifiers in the order given
\* and a failed identifier does not stop the later ones: the run ends only
\* after every identifier has been handled, and then a chapter has an output
\* file exactly if an identifier resolving to it was generated successfully.
C1_FailureDoesNotStopLaterChapters ==
    mode = "chapters" =>
        /\ Len(outcomes) <= Len(identifiers)
        /\ \A j \in 1..Len(outcomes) : outcomes[j].identifier = identifiers[j]
        /\ pc \in {"gmc_loop", "gca_backup"} => idIndex = Len(outcomes)
        /\ pc \in {"done", "failed"} =>
              /\ Len(outcomes) = Len(identifiers)
              /\ \A k \in 1..Len(BookToc.chapters) :
                    HasAudio(BookToc.chapters[k]) <=>
                        \E j \in 1..Len(outcomes) :
                            /\ outcomes[j].result = "ok"
                            /\ findChapter(BookToc, identifiers[j])
                                   = BookToc.chapters[k]

\* identifiers [1, 2, 3], chapter 2 failed for good, chapters 1 and 3 were
\* generated after and before it
C1_Witness ==
    /\ pc = "done"
    /\ mode = "chapters"
    /\ config.api_key_set
    /\ identifiers = <<<<"1">>, <<"2">>, <<"3">>>>
    /\ [j \in 1..Len(outcomes) |-> outcomes[j].result] = <<"ok", "failed", "ok">>
    /\ HasAudio(BookToc.chapters[1])
    /\ ~HasAudio(BookToc.chapters[2])
    /\ HasAudio(BookToc.chapters[3])

\* C12: generateChapterAudio for an identifier that resolves to no chapter
\* prints the "Chapter not found" error and returns: nothing is raised, no
\* request is issued, and toc.yml, its backups, the audio files and the
\* temporary files stay as they are.
C12_NotFoundIsNonFatal ==
    [][(/\ pc = "gmc_loop"
        /\ idIndex < Len(identifiers)
        /\ \A k \in 1..Len(tocFile.chapters) :
              findChapter(tocFile, identifiers[idIndex + 1])
                  # tocFile.chapters[k])
       => /\ thrown' = NoError
          /\ pc' \in {"gmc_loop", "gmc_delay"}
          /\ inflight' = {} /\ inflight = {}
          /\ attempts' = 0
          /\ tocFile' = tocFile
          /\ backupFiles' = backupFiles
          /\ audioFiles' = audioFiles
          /\ tempFiles' = tempFiles
          /\ outcomes' = Append(outcomes,
                                [identifier |-> identifiers[idIndex + 1],
                                 result |-> "not_found"])
          /\ console' = Append(console,
                               ChapterNotFoundLine(identifiers[idIndex + 1]))
      ]_vars

\* identifier 9 of [9, 2] was reported as not found ahead of the generation
\* of chapter 2
C12_Witness ==
    /\ mode = "chapters"
    /\ identifiers = <<<<"9">>, <<"2">>>>
    /\ Len(outcomes) = 1
    /\ outcomes[1].result = "not_found"
    /\ console = <<ChapterNotFoundLine(<<"9">>)>>
    /\ audioFiles = NoFiles
    /\ tocFile = BookToc
    /\ pc = "gmc_delay"

\* the chapters the identifiers handled so far, the current one included,
\* resolve to
SelectedChapters ==
    {findChapter(BookToc, identifiers[j]) :
        j \in 1..(IF idIndex < Len(identifiers) THEN idIndex + 1
                  ELSE Len(identifiers))}

C14_TocChaptersNeverChange ==
    mode = "chapters" => tocFile.chapters = BookToc.chapters

\* C15: with the provider's API key variable unset, generateBookAudio raises
\* the validation error first of all: it never loads the table of contents,
\* never attempts or issues a synthesis request and writes no audio or
\* temporary file.
C15_ValidationFailsBeforeAnyRequest ==
    ~config.api_key_set =>
        /\ inflight = {}
        /\ attempts = 0
        /\ runToc = <<>>
        /\ chunks = <<>>
        /\ audioFiles = NoFiles
        /\ tempFiles = NoFiles
        /\ pc \in {"gmc_loop", "gmc_delay", "gca_backup", "gca_write",
                   "gca_finally", "gba_start", "gba_throw", "done", "failed"}
        /\ pc = "gba_throw" => thrown = ValidationError
        /\ pc = "failed" => thrown = ValidationError
        /\ (mode = "book" => pc # "done")

\* a whole-book run without the API key: it failed with the validation
\* error, nothing requested, nothing written
C15_Witness ==
    /\ mode = "book"
    /\ ~config.api_key_set
    /\ pc = "failed"
    /\ thrown = ValidationError
    /\ inflight = {}
    /\ audioFiles = NoFiles

\* C16: when a chunk of a chapter of two or more chunks has exhausted its
\* retries, the chapter's output file has not been written and no later
\* chunk has been synthesized, and the next step takes the error out of the
\* chapter's generation: no request, no concatenation, no output file.
C16_ChunkFailureAbortsChapter ==
    [][(pc = "gsa_exhausted" /\ Len(chunks) >= 2)
       => /\ audioPath \notin DOMAIN audioFiles
          /\ Len(chunkAudio) = chunkIndex
          /\ Len(chunkPaths) = chunkIndex
          /\ thrown # NoError
          /\ thrown' = thrown
          /\ pc' \in {"gca_finally", "failed"}
          /\ inflight' = {}
          /\ audioFiles' = audioFiles
          /\ tempFiles' = tempFiles
          /\ chunks' = <<>>
      ]_vars

\* the second of three chunks has exhausted its retries: chunk 0 is in its
\* temporary file, chunk 2 was never requested
C16_Witness ==
    /\ pc = "gsa_exhausted"
    /\ Len(chunks) = 3
    /\ chunkIndex = 1
    /\ Len(chunkAudio) = 1
    /\ config.retry_attempts >= 1
    /\ audioPath \notin DOMAIN audioFiles

\* C17: when generateMultipleChapters has ended, the last line it printed
\* reports how many identifiers were generated and how many failed.
C17_RunReportsTally ==
    (mode = "chapters" /\ pc = "done") =>
        LET succeeded == Cardinality({j \in 1..Len(outcomes) :
                                         outcomes[j].result = "ok"})
            failed == Cardinality({j \in 1..Len(outcomes) :
                                      outcomes[j].result = "failed"})
            last == console[Len(console)].text
        IN  /\ console # <<>>
            /\ Includes(last, NatToString(succeeded))
            /\ Includes(last, NatToString(failed))

\* the errors of the "error" lines of the log, in order
RECURSIVE LoggedErrors(_)
LoggedErrors(lines) ==
    IF lines = <<>> THEN <<>>
    ELSE (IF Head(lines).level = "error" THEN <<Head(lines).error>> ELSE <<>>)
             \o LoggedErrors(Tail(lines))

\* C21: the error of every failed attempt is in the log: while a backoff
\* wait is pending the log ends with the error line of the failure it
\* follows and the retry line, the error lines being those of the earlier
\* waits and no more; when the retries are exhausted the log ends with the
\* error line of the error that propagates.
C21_ErrorsLoggedBeforeRecovery ==
    /\ pc = "gsa_backoff" =>
          /\ Len(logLines) >= 2
          /\ logLines[Len(logLines) - 1].level = "error"
          /\ logLines[Len(logLines) - 1].error = lastError
          /\ logLines[Len(logLines)].level = "warn"
          /\ LoggedErrors(logLines) = [k \in 1..Len(waits) |-> waits[k].error]
    /\ pc = "gsa_exhausted" =>
          /\ logLines # <<>>
          /\ logLines[Len(logLines)].level = "error"
          /\ logLines[Len(logLines)].error = thrown
          /\ thrown # NoError
          /\ Len(LoggedErrors(logLines)) = attempts
    /\ pc \in {"gsa_try", "gsa_await", "gsa_backoff", "gsa_exhausted", "gsa_return"} =>
          Len(LoggedErrors(logLines)) = retries

\* two attempts failed with different errors and were logged, the second
\* backoff is pending
C21_Witness ==
    /\ pc = "gsa_backoff"
    /\ retries = 2
    /\ Len(LoggedErrors(logLines)) = 2
    /\ LoggedErrors(logLines)[1] # LoggedErrors(logLines)[2]

\* where generateAudioForText is between its first chunk and its cleanup
InAudioForText ==
    pc \in {"gat_chunk", "gsa_try", "gsa_await", "gsa_backoff", "gsa_exhausted",
            "gsa_return", "gat_rate_delay", "gat_concat", "gat_throw",
            "gat_cleanup"}

\* C23: a temporary chunk file exists only while a chapter of two or more
\* chunks is being generated, the files are removed only once the chapter's
\* output has been written, and a single-chunk chapter is synthesized
\* straight to its output file without concatenation.
C23_TempFilesOnlyDuringGeneration ==
    /\ tempFiles # NoFiles => InAudioForText /\ Len(chunks) >= 2
    /\ pc = "gat_cleanup" => audioPath \in DOMAIN audioFiles
    /\ (InAudioForText /\ Len(chunks) = 1) =>
          /\ pc \notin {"gat_concat", "gat_cleanup", "gat_rate_delay"}
          /\ outputPath.dir # "temp"

\* C24: generateMultipleChapters waits its 3 s after an identifier only if
\* that identifier produced its chapter audio and is not the last one.
C24_DelayOnlyAfterSuccess ==
    (mode = "chapters" /\ pc = "gmc_delay") =>
        /\ outcomes # <<>>
        /\ outcomes[Len(outcomes)].result = "ok"
        /\ idIndex < Len(identifiers) - 1

\* C25: outside generateChapterAudio, that is between two identifiers and
\* when the run has ended, toc.yml holds the original table of contents and
\* no backup file is left, however the generation of the chapters ended.
C25_TocRestoredAfterChapter ==
    (mode = "chapters" /\ pc \in {"gmc_loop", "gmc_delay", "done", "failed"}) =>
        /\ tocFile = BookToc
        /\ backupFiles = NoFiles

\* the run has ended after a chapter that was generated, one that failed and
\* one more, toc.yml having been replaced and restored each time
C25_Witness ==
    /\ mode = "chapters"
    /\ pc = "done"
    /\ Len(outcomes) = 3
    /\ \E j \in 1..3 : outcomes[j].result = "failed"
    /\ \E j \in 1..3 : outcomes[j].result = "ok"
    /\ config.api_key_set
    /\ tocFile = BookToc
    /\ backupFiles = NoFiles

\* the chapters of the book whose content file exists
ReadableChapters ==
    {k \in 1..Len(BookToc.chapters) :
        BookToc.chapters[k].filename \in contentFiles}

\* C26: in a whole-book run the error of a chunk whose retries are exhausted
\* ends the run: the next step is the exit, without a request or a file
\* written, and nothing follows the exit; the chapters with audio are then a
\* proper initial part of the readable chapters.  A chapter without content
\* file is passed over with a warning and no error, and a run that ends
\* normally has generated every readable chapter.
C26_BookRunAbortsOnChapterFailure ==
    /\ [](mode = "book" =>
            /\ pc = "failed" =>
                  /\ inflight = {}
                  /\ \E k \in ReadableChapters :
                        /\ ~HasAudio(BookToc.chapters[k])
                        /\ \A j \in ReadableChapters :
                              HasAudio(BookToc.chapters[j]) => j < k
            /\ pc = "done" =>
                  /\ thrown = NoError
                  /\ \A k \in 1..Len(BookToc.chapters) :
                        HasAudio(BookToc.chapters[k]) <=> k \in ReadableChapters)
    /\ [][mode = "book" =>
            /\ pc = "gsa_exhausted" =>
                  /\ pc' = "failed"
                  /\ thrown' = thrown
                  /\ inflight' = {}
                  /\ audioFiles' = audioFiles
            /\ pc # "failed"
            /\ (/\ pc = "gba_loop"
                /\ chapterIndex <= Len(runToc)
                /\ runToc[chapterIndex].filename \notin contentFiles) =>
                  /\ pc' = "gba_loop"
                  /\ chapterIndex' = chapterIndex + 1
                  /\ thrown' = NoError
                  /\ logLines' # <<>>
                  /\ logLines'[Len(logLines')].level = "warn"
                  /\ audioFiles' = audioFiles
      ]_vars

\* chapter 1 was generated, chapter 2 has no content file and was passed
\* over, chapter 3 failed for good and the run has exited
C26_Witness ==
    /\ mode = "book"
    /\ pc = "failed"
    /\ contentFiles = {"01.md", "03.md"}
    /\ thrown \in ProviderErrors(config.provider)
    /\ HasAudio(BookToc.chapters[1])
    /\ ~HasAudio(BookToc.chapters[3])

\* the failures the retry policy takes for rate-limit failures
RateLimitErrors == {Http429, Api429, ApiTooMany}

\* C2: generateSingleAudio alternates attempts and waits; when every attempt
\* fails it has made retry_attempts + 1 attempts and retry_attempts waits,
\* the i-th wait being a base delay (retry_delay or retry_delay / 3) times
\* 2^(i-1) and retry_delay * 2^(i-1) when all failures are rate-limit
\* failures, and it raises the error of the last attempt.
C2_RetryExhaustion ==
    /\ pc \in {"gsa_try", "gsa_backoff"} => attempts = Len(waits)
    /\ pc = "gsa_await" => attempts = Len(waits) + 1
    /\ pc \in {"gsa_try", "gsa_backoff", "gsa_await"} =>
          /\ retries = Len(waits)
          /\ retries <= config.retry_attempts
    /\ pc = "gsa_exhausted" =>
          /\ attempts = config.retry_attempts + 1
          /\ Len(waits) = config.retry_attempts
          /\ thrown = lastError
          /\ thrown \in ProviderErrors(config.provider)
          /\ \A i \in 1..Len(waits) :
                /\ waits[i].delay \in {Thirds(config.retry_delay) * 2^(i - 1),
                                       config.retry_delay * 2^(i - 1)}
                /\ (\A j \in 1..Len(waits) : waits[j].error \in RateLimitErrors)
                      => waits[i].delay = Thirds(config.retry_delay) * 2^(i - 1)

\* retry_attempts = 3, retry_delay = 1000 ms, rate-limit failures only: waits
\* of 1000, 2000 and 4000 ms, then the fourth failure is raised
C2_Witness ==
    /\ pc = "gsa_exhausted"
    /\ config.retry_attempts = 3
    /\ config.retry_delay = 1000
    /\ attempts = 4
    /\ [i \in 1..Len(waits) |-> waits[i].delay]
           = <<Thirds(1000), Thirds(2000), Thirds(4000)>>
    /\ thrown \in RateLimitErrors

\* C3: the base delay of each wait is decided by the failure before it:
\* retry_delay for a rate-limit failure, retry_delay / 3 for any other.
C3_BaseDelayByFailure ==
    \A i \in 1..Len(waits) :
        waits[i].delay =
            (IF waits[i].error \in RateLimitErrors
             THEN Thirds(config.retry_delay)
             ELSE config.retry_delay) * 2^(i - 1)

\* a call whose waits followed a failure without HTTP status recognised by
\* its message and, later, a failure of the other kind
C3_Witness ==
    \E i, j \in 1..Len(waits) :
        /\ i < j
        /\ waits[i].error \in {Api429, ApiTooMany}
        /\ waits[j].error \notin RateLimitErrors
        /\ waits[i].delay = Thirds(config.retry_delay) * 2^(i - 1)
        /\ waits[j].delay = config.retry_delay * 2^(j - 1)

\* C4: at most one synthesis request is in flight, and it is the request of
\* the current attempt of the current chunk: every earlier chunk of the
\* chapter has its audio and every earlier attempt of the chunk has been
\* answered and waited for.
C4_OneRequestInFlight ==
    /\ Cardinality(inflight) <= 1
    /\ \A req \in inflight :
          /\ pc = "gsa_await"
          /\ req.chapter = runToc[chapterIndex].order
          /\ req.chunk = chunkIndex
          /\ req.attempt = attempts
          /\ Len(waits) = req.attempt - 1
          /\ Len(chunkAudio) = req.chunk

\* a whole-book run awaiting a retried request for a later chunk of a later
\* chapter
C4_Witness ==
    /\ mode = "book"
    /\ chapterIndex >= 2
    /\ \E req \in inflight : req.chunk >= 1 /\ req.attempt >= 2

RECURSIVE JoinBytes(_, _)
JoinBytes(results, k) ==
    IF k = 0 THEN <<>> ELSE JoinBytes(results, k - 1) \o results[k].bytes

\* C5: the output file of a chapter of two or more chunks is the per-chunk
\* audio results, chunk 0 first, joined in chunk order.
C5_OutputIsChunksInOrder ==
    (pc \in {"gat_cleanup", "gba_chapter_delay"} /\ Len(chunks) >= 2) =>
        /\ Len(chunkAudio) = Len(chunks)
        /\ \A k \in 1..Len(chunkAudio) : chunkAudio[k].chunk = k - 1
        /\ audioPath \in DOMAIN audioFiles
        /\ audioFiles[audioPath] = JoinBytes(chunkAudio, Len(chunkAudio))

\* a chapter of three chunks with pairwise different audio, just concatenated
C5_Witness ==
    /\ pc = "gat_cleanup"
    /\ Len(chunks) = 3
    /\ Len(chunkAudio) = 3
    /\ \A j, k \in 1..3 : j # k => chunkAudio[j].bytes # chunkAudio[k].bytes
    /\ audioPath \in DOMAIN audioFiles

\* C6: generateAudioForText waits the configured rate-limit delay after a
\* chunk's synthesis exactly when the chunk is not the last: syntheses and
\* delays alternate, starting and ending with a synthesis.
C6_RateLimitDelayBetweenChunks ==
    /\ \A p \in 1..Len(events) :
          IF p % 2 = 1
          THEN events[p] = [type |-> "synth", value |-> (p - 1) \div 2]
          ELSE events[p] =
                   [type |-> "delay",
                    value |-> IF options.rate_limit_delay \notin {<<>>, <<0>>}
                              THEN options.rate_limit_delay[1]
                              ELSE config.rate_limit_delay]
    /\ pc = "gat_rate_delay" =>
          /\ Len(events) = 2 * (chunkIndex + 1)
          /\ chunkIndex + 1 < Len(chunks)
    /\ pc \in {"gat_concat", "gat_cleanup", "gba_chapter_delay"} =>
          Len(events) = 2 * Len(chunks) - 1

\* a chapter of three chunks done: three syntheses, two delays
C6_Witness ==
    /\ pc = "gat_concat"
    /\ Len(chunks) = 3
    /\ Len(events) = 5
    /\ events[2].type = "delay"
    /\ events[4].type = "delay"
    /\ events[5] = [type |-> "synth", value |-> 2]

----------------------------------------------------------------------------
(* Properties of the chunker.                                              *)

RECURSIVE AllSpace(_)
AllSpace(s) == s = <<>> \/ (IsSpace(Head(s)) /\ AllSpace(Tail(s)))

IsPrefix(p, s) == Len(p) <= Len(s) /\ SubSeq(s, 1, Len(p)) = p

\* text is the chunks in order, with nothing but whitespace before, between
\* and after them
RECURSIVE Reassembles(_, _)
Reassembles(text, cs) ==
    IF cs = <<>> THEN AllSpace(text)
    ELSE \/ /\ IsPrefix(Head(cs), text)
            /\ Reassembles(SubSeq(text, Len(Head(cs)) + 1, Len(text)), Tail(cs))
         \/ /\ text # <<>>
            /\ IsSpace(Head(text))
            /\ Reassembles(Tail(text), cs)

\* C7: no chunk returned by splitTextIntoChunks is longer than the maximum
\* chunk size, a chunk cut at a sentence terminator included.
C7_NoChunkLongerThanMax ==
    splitPc = "done" =>
        \A k \in 1..Len(splitChunks) : Len(splitChunks[k]) <= splitMax

\* C8: the slices splitTextIntoChunks cuts are non-empty and contiguous,
\* the first starts at index 0 and the last ends at the end of the text, and
\* the returned chunks are the text in order up to whitespace around the
\* chunks; a text that fits is returned whole.
C8_SplitCoversText ==
    splitPc = "done" =>
        /\ Reassembles(splitText, splitChunks)
        /\ Len(splitText) <= splitMax => splitChunks = <<splitText>>
        /\ Len(splitText) > splitMax =>
              /\ splitCuts # <<>>
              /\ splitCuts[1].start = 0
              /\ \A k \in 1..Len(splitCuts) :
                    /\ splitCuts[k].start < splitCuts[k].end
                    /\ splitCuts[k].start < Len(splitText)
              /\ \A k \in 1..(Len(splitCuts) - 1) :
                    /\ splitCuts[k + 1].start = splitCuts[k].end
                    /\ splitCuts[k].end < Len(splitText)
              /\ splitCuts[Len(splitCuts)].end >= Len(splitText)

\* a text cut into three slices, one at a sentence terminator and one at the
\* hard boundary, that lost whitespace at a cut
C8_Witness ==
    /\ splitPc = "done"
    /\ Len(splitCuts) >= 3
    /\ Len(splitChunks) >= 2
    /\ \E k \in 1..Len(splitCuts) :
           splitCuts[k].end - splitCuts[k].start # splitMax
    /\ \E k \in 1..(Len(splitCuts) - 1) :
           splitCuts[k].end - splitCuts[k].start = splitMax
    /\ \E k \in 1..Len(splitCuts) :
           Len(Trim(Slice(splitText, splitCuts[k].start, splitCuts[k].end)))
               < Len(Slice(splitText, splitCuts[k].start, splitCuts[k].end))

\* C9: every chunk returned by splitTextIntoChunks is non-empty and has no
\* leading or trailing whitespace, also when the text fits in one chunk.
C9_ChunksTrimmedNonEmpty ==
    splitPc = "done" =>
        \A k \in 1..Len(splitChunks) :
            /\ splitChunks[k] # <<>>
            /\ Trim(splitChunks[k]) = splitChunks[k]

----------------------------------------------------------------------------
(* Properties of the normalizer.                                           *)

\* C10: normalizeTextForTTS is idempotent: normalizing its own result again
\* changes nothing.
C10_NormalizeIdempotent ==
    normPc = "twice" => normTwice = normOnce

----------------------------------------------------------------------------
(* Properties of findChapter.                                              *)

\* title contains sub, letters compared without regard to case
ContainsIgnoringCase(title, sub) ==
    \E off \in 0..(Len(title) - Len(sub)) :
        \A k \in 1..Len(sub) : LowerChar(title[off + k]) = LowerChar(sub[k])

\* r is the first of chapters that satisfies Hit, NoChapter if none does
IsFirstHit(r, chapters, Hit(_)) ==
    \/ r = NoChapter /\ \A k \in 1..Len(chapters) : ~Hit(chapters[k])
    \/ \E k \in 1..Len(chapters) :
          /\ r = chapters[k]
          /\ Hit(chapters[k])
          /\ \A j \in 1..(k - 1) : ~Hit(chapters[j])

\* C11: findChapter resolves an identifier that parses as an integer (for
\* parseInt: optional whitespace and sign, then digits) to the first chapter
\* with that order and to nothing when no chapter has it, whatever the
\* titles say; any other identifier resolves to the first chapter, in table
\* of contents order, whose title contains it without regard to case, and
\* to nothing when there is none.
C11_FindChapterResolution ==
    callPc = "returned" =>
        LET n == parseInt(callArgs.identifier)
            ByOrder(ch) == ch.order = n.value
            ByTitle(ch) == ContainsIgnoringCase(ch.title, callArgs.identifier)
        IN  IF ~n.isNaN
            THEN IsFirstHit(callResult, callArgs.toc.chapters, ByOrder)
            ELSE IsFirstHit(callResult, callArgs.toc.chapters, ByTitle)

\* "N" is in the titles of chapters 2 and 3 as "n": chapter 2 is found
C11_Witness ==
    /\ callPc = "returned"
    /\ callArgs = [identifier |-> <<"N">>, toc |-> BookToc]
    /\ callResult = BookToc.chapters[2]
    /\ ContainsIgnoringCase(BookToc.chapters[3].title, <<"N">>)

----------------------------------------------------------------------------
(* Properties of the batch processor.                                      *)

\* C18: in processBooksConcurrently at most maxConcurrent processBook
\* invocations are in flight, a group is started only when every book
\* before it has settled and no book after it has started, and every book
\* found is processed once: never twice, and once when the run has ended.
C18_AtMostMaxConcurrentInFlight ==
    (batchPc \in {"pbc_loop", "pbc_await", "done"}
     /\ batchOptions.parallel /\ Len(bookFiles) > 1) =>
        /\ Cardinality(BooksInFlight) <= batchOptions.maxConcurrent
        /\ batchPc = "pbc_loop" => BooksInFlight = {}
        /\ \A b \in 1..Len(bookFiles) :
              /\ bookCalls[b] <= 1
              /\ b <= batchI => bookState[b] = "settled"
              /\ b > batchI + batchOptions.maxConcurrent => bookState[b] = "idle"
              /\ bookState[b] = "idle" <=> bookCalls[b] = 0
              /\ batchPc = "done" => bookCalls[b] = 1 /\ bookState[b] = "settled"

\* three books with a cap of two: the first group of two has settled and
\* the third book is in flight alone
C18_Witness ==
    /\ batchPc = "pbc_await"
    /\ batchOptions.maxConcurrent = 2
    /\ Len(bookFiles) = 3
    /\ batchI = 2
    /\ BooksInFlight = {3}
    /\ bookCalls = <<1, 1, 1>>

----------------------------------------------------------------------------
(* Properties of createWavFile.                                            *)

\* the unsigned little-endian integer of n bytes after the first offset
\* bytes of a file
RECURSIVE ReadUIntLE(_, _, _)
ReadUIntLE(bytes, offset, n) ==
    IF n = 0 THEN 0
    ELSE bytes[offset + 1] + 256 * ReadUIntLE(bytes, offset + 1, n - 1)

\* C19: the file createWavFile writes for N bytes of PCM at sample rate R
\* is a 44-byte header followed by the PCM bytes as they were, the header
\* holding "RIFF", 36+N, "WAVE", "fmt ", 16, format 1, 1 channel, R, byte
\* rate 2R, block align 2, 16 bits per sample, "data" and N, the numbers
\* little-endian.
C19_WavHeaderFields ==
    callPc = "returned" =>
        LET file == callResult
            N == Len(callArgs.pcmBuffer)
            R == callArgs.sampleRate
        IN  /\ Len(file) = 44 + N
            /\ \A k \in 1..Len(file) : file[k] \in 0..255
            /\ SubSeq(file, 45, Len(file)) = callArgs.pcmBuffer
            /\ SubSeq(file, 1, 4) = <<82, 73, 70, 70>>
            /\ ReadUIntLE(file, 4, 4) = 36 + N
            /\ SubSeq(file, 9, 12) = <<87, 65, 86, 69>>
            /\ SubSeq(file, 13, 16) = <<102, 109, 116, 32>>
            /\ ReadUIntLE(file, 16, 4) = 16
            /\ ReadUIntLE(file, 20, 2) = 1
            /\ ReadUIntLE(file, 22, 2) = 1
            /\ ReadUIntLE(file, 24, 4) = R
            /\ ReadUIntLE(file, 28, 4) = 2 * R
            /\ ReadUIntLE(file, 32, 2) = 2
            /\ ReadUIntLE(file, 34, 2) = 16
            /\ SubSeq(file, 37, 40) = <<100, 97, 116, 97>>
            /\ ReadUIntLE(file, 40, 4) = N

\* three bytes of PCM at a rate whose four bytes all differ
C19_Witness ==
    /\ callPc = "returned"
    /\ callArgs.pcmBuffer = <<255, 0, 1>>
    /\ callArgs.sampleRate = 305419896
    /\ Len(callResult) = 47
    /\ SubSeq(callResult, 25, 28) = <<120, 86, 52, 18>>

----------------------------------------------------------------------------
(* Properties of getEffectiveOptions.                                      *)

\* the override when one is supplied, the default otherwise
Merged(field, default) == IF field # Undefined THEN field[1] ELSE default

\* C20: each of voice, model, format, chunk_size and rate_limit_delay of
\* getEffectiveOptions(provider, overrides) is the override when one is
\* supplied and the provider's default otherwise.
C20_EffectiveOptionsMergeOverrides ==
    callPc = "returned" =>
        LET cfg == getProviderConfig(callArgs.provider)
            o == callArgs.options
        IN  /\ callResult.voice = Merged(o.voice, cfg.voice)
            /\ callResult.model = Merged(o.model, cfg.model)
            /\ callResult.format = Merged(o.format, cfg.format)
            /\ callResult.chunk_size = Merged(o.chunk_size, cfg.max_chunk_size)
            /\ callResult.rate_limit_delay
                   = Merged(o.rate_limit_delay, cfg.rate_limit_delay)

----------------------------------------------------------------------------
(* Properties of the text pipeline.                                        *)

\* C22: the texts sent to the provider for a chapter are the chunks of the
\* normalized chapter text, none longer than the chunk size.
C22_ChunksOfNormalizedText ==
    callPc = "returned" =>
        /\ callResult = splitTextIntoChunks(
                            normalizeTextForTTS(callArgs.text,
                                                DefaultTextProcessing),
                            callArgs.chunk_size)
        /\ \A k \in 1..Len(callResult) :
              Len(callResult[k]) <= callArgs.chunk_size

----------------------------------------------------------------------------
(* Properties of overlapping generateChapterAudio calls.                   *)

AllCallsOver == \A r \in Overlapping : genPc[r] \in {"returned", "threw"}

\* C27: when all overlapping calls are over, toc.yml holds the original, or
\* the single-chapter table of contents that one call backed up after
\* another call had written it, or the one written by a call whose restore
\* found its backup file already moved by another call.
C27_OverlapLeavesBackedUpToc ==
    AllCallsOver =>
        \/ tocFile = BookToc
        \/ \E r \in Overlapping :
              /\ genBackedUp[r] = <<tocFile>>
              /\ tocFile.totalChapters = 1
              /\ \E other \in Overlapping \ {r} :
                    tocFile = singleChapterToc(genChapter[other])
        \/ \E r \in Overlapping :
              /\ genPc[r] = "threw"
              /\ tocFile = singleChapterToc(genChapter[r])
              /\ \E other \in Overlapping \ {r} :
                    genBackupPath[other] = genBackupPath[r]

\* both calls have returned, the second having backed up the first one's
\* single-chapter toc.yml and restored it last
C27_Witness ==
    /\ AllCallsOver
    /\ \A r \in Overlapping : genPc[r] = "returned"
    /\ tocFile # BookToc
    /\ tocFile.totalChapters = 1
    /\ backupFiles = NoFiles
    /\ \E r \in Overlapping : genBackedUp[r] = <<tocFile>>

\* the books the run skips as already processed
SkippedBooks ==
    {b \in 1..Len(bookFiles) :
        batchOptions.skipExisting /\ bookFiles[b].processed}

\* the books whose conversion throws
FailedConversions ==
    {b \in 1..Len(bookFiles) \ SkippedBooks : ~bookFiles[b].converts}

\* C28: the summary of a batch run, sequential or parallel, counts every
\* book file found once, and counts as failed exactly the books whose
\* conversion failed: skipped books and books whose audio generation failed
\* are counted as successful.
C28_TallyCountsEveryBookOnce ==
    (batchPc = "done" /\ bookFiles # <<>>) =>
        /\ Len(batchSummary) = 1
        /\ batchSummary[1].failed = Cardinality(FailedConversions)
        /\ batchSummary[1].successful =
              Len(bookFiles) - Cardinality(FailedConversions)

\* a finished run over a skipped book, a book whose audio generation failed
\* and a book whose conversion failed: two successful, one failed
C28_Witness ==
    /\ batchPc = "done"
    /\ batchOptions.audioGeneration
    /\ Len(bookFiles) = 3
    /\ \E b \in SkippedBooks : ~bookFiles[b].converts
    /\ \E b \in 1..Len(bookFiles) \ SkippedBooks :
          bookFiles[b].converts /\ ~bookFiles[b].audio
    /\ Cardinality(FailedConversions) = 1
    /\ batchSummary = <<[successful |-> 2, failed |-> 1]>>

----------------------------------------------------------------------------
(* Properties of the output of a raw-PCM provider.                         *)

\* N_k: the length of the PCM the provider returned for the k-th chunk
PcmLength(k) ==
    Len(Speech(normalizeTextForTTS(chunks[k], DefaultTextProcessing)))

\* the offset in the output file at which the k-th chunk's segment starts
RECURSIVE SegmentStart(_)
SegmentStart(k) ==
    IF k = 1 THEN 0 ELSE SegmentStart(k - 1) + 44 + PcmLength(k - 1)

\* C29: with a provider that returns raw PCM, the output file of a chapter
\* of k >= 2 chunks is k complete WAV files one after the other: its length
\* is the sum of the 44 + N_i, every segment starts with the 44-byte header
\* of its chunk, and the RIFF size and data size fields at offsets 4 and 40
\* are 36 + N_1 and N_1, those of the first chunk, less than the total.
C29_OutputIsConcatenatedWavFiles ==
    (/\ pc = "gat_cleanup"
     /\ config.provider = "google"
     /\ IsRawPcm(config.mimeType)
     /\ Len(chunks) >= 2) =>
        LET file == audioFiles[audioPath]
            k == Len(chunks)
            R == SampleRateOf(config.mimeType)
        IN  /\ Len(file) = SegmentStart(k) + 44 + PcmLength(k)
            /\ \A i \in 1..k :
                  /\ SubSeq(file, SegmentStart(i) + 1, SegmentStart(i) + 44)
                        = WavHeader(PcmLength(i), R)
                  /\ ReadUIntLE(file, SegmentStart(i) + 40, 4) = PcmLength(i)
            /\ ReadUIntLE(file, 4, 4) = 36 + PcmLength(1)
            /\ ReadUIntLE(file, 40, 4) = PcmLength(1)
            /\ PcmLength(1) < Len(file) - 44 * k

\* a chapter of three chunks of raw PCM just concatenated: three headers in
\* the output, the first one's sizes smaller than what follows it
C29_Witness ==
    /\ pc = "gat_cleanup"
    /\ config.provider = "google"
    /\ IsRawPcm(config.mimeType)
    /\ Len(chunks) = 3
    /\ audioPath \in DOMAIN audioFiles
    /\ Len(audioFiles[audioPath]) > 3 * 44
    /\ ReadUIntLE(audioFiles[audioPath], 4, 4) + 8 < Len(audioFiles[audioPath])

----------------------------------------------------------------------------
(* Properties of the audio file names.                                     *)

\* C30: two chapters of one book whose order values are distinct positive
\* integers get different audio file names, whatever their titles are.
C30_DistinctOrdersDistinctNames ==
    (callPc = "returned" /\ callArgs.first.order # callArgs.second.order) =>
        callResult[1] # callResult[2]

\* orders 10 and 100 with titles "0-" and "-": names of the same length,
\* "10-0-.wav" and "100--.wav"
C30_Witness ==
    /\ callPc = "returned"
    /\ callArgs.first = [order |-> 10, title |-> <<"0", "-">>]
    /\ callArgs.second = [order |-> 100, title |-> <<"-">>]
    /\ Len(callResult[1]) = Len(callResult[2])
    /\ SubSeq(callResult[1], 1, 5) = <<"1", "0", "-", "0", "-">>
    /\ SubSeq(callResult[2], 1, 5) = <<"1", "0", "0", "-", "-">>

====
